---------------------------- MODULE Spec2Model ----------------------------
(***************************************************************************)
(* Model of the 5300-notebooks dynamical models: the Pendulum class of the *)
(* Section 12.4 notebook, the Orbit class of the "Orbit games" notebook    *)
(* and the Potential class of the energy-diagram notebook, together with   *)
(* the notebook cells that integrate them and post-process the result.     *)
(*                                                                         *)
(* Numbers.  Python floats are modelled by exact arithmetic; rounding,     *)
(* overflow and underflow of IEEE doubles are outside the model.           *)
(*   - Orbit/Potential quantities are rationals <<n, d>> in lowest terms   *)
(*     with d > 0.  <<0, 0>> (Undef) stands for "no finite value": the     *)
(*     result of a division by zero (inf/nan from NumPy, ZeroDivisionError *)
(*     from a Python scalar).  Undef propagates through every operation.   *)
(*   - Pendulum quantities are integers.  The arguments of np.sin and      *)
(*     np.cos are measured in quarter turns (pi/2), so that on this        *)
(*     lattice the two functions are exact: 0, 1, 0, -1, ...               *)
(*   - Times are integer ticks (multiples of delta_t).                     *)
(***************************************************************************)
EXTENDS Integers, Sequences, FiniteSets, TLC

VARIABLES
    obj,            \* the model object (p1, o1): its class and attributes
    ctor,           \* the arguments its constructor was called with
    t_pts,          \* the notebook's global time grid
    call,           \* the last method call: name, receiver and arguments
    ret,            \* what that call returned: exception, warning, value
    driving,        \* pendulum notebook: the driving force on the grid
    phi,            \* pendulum notebook: the trajectory last unpacked
    phi_dot,
    r_pts,          \* orbit notebook: radii (plot radii or a trajectory)
    r_dot_pts,      \* orbit notebook: the trajectory last unpacked
    phi_pts,
    E_tot_pts,      \* orbit notebook: the energy at each sample
    E_tot_rel_pts,  \* orbit notebook: its relative change since sample 0
    t_end,          \* the end of the plotting time the grid was built from
    delta_t,        \* the grid step the grid was built from
    start,          \* the window last returned by start_stop_indices
    stop,
    tau_ext,        \* periodicity check: the driving period
    delta_index,    \* periodicity check: grid steps between two samples
    stdout,         \* periodicity check: the (time, value) pairs printed
    signal,         \* power spectrum: the slice of phi it is taken of
    power_spectrum,
    freqs,
    idx,
    index,          \* periodicity check: the loop variable
    range_iter,     \* periodicity check: the iterator of the running loop
    epsilon,        \* orbit notebook: the eccentricity the solve cell prints
    energy_0,       \* orbit notebook: the initial energy it prints
    pc,             \* top-to-bottom run: the statement to execute next
    phi_fig12_6,    \* pendulum notebook: the Figure 12.6 trajectory kept
    phi_k,          \* pendulum notebook: phi_1 .. phi_4 of Figure 12.8
    p_k             \* pendulum notebook: p1 .. p4 of Figure 12.8

\* The notebook's global names beside the object and the grid.
\* What the periodicity check binds and prints.
periodicity == <<tau_ext, delta_index, index, range_iter, stdout>>

\* What the power-spectrum cell binds.
spectrum == <<signal, power_spectrum, freqs, idx>>

\* What the orbit notebook's solve cell prints.
eccentricity == <<epsilon, energy_0>>

\* The position of a top-to-bottom run and the trajectories only such a
\* run binds.
run == <<pc, phi_fig12_6, phi_k, p_k>>

globals ==
    <<driving, phi, phi_dot, r_pts, r_dot_pts, phi_pts, E_tot_pts,
      E_tot_rel_pts, t_end, delta_t, start, stop, periodicity, spectrum,
      eccentricity, run>>

vars == <<obj, ctor, t_pts, call, ret, globals>>

\* A global name that no cell has bound yet.  Every array a cell binds has
\* at least one element.
Unbound == << >>

----------------------------------------------------------------------------
(* Bounds of the model                                                     *)

MaxT == 3       \* times are the ticks 0..MaxT
MaxR == 2       \* radii are the half-integers 0, 1/2, ..., MaxR
MaxY == 1       \* velocities and angles are -MaxY..MaxY
Quantum == 2    \* solve_ivp's accuracy: states are reported to 1/Quantum
MxStep == 1     \* odeint's mxstep: internal steps allowed per output point

Times == 0..MaxT
YVals == (-MaxY)..MaxY

\* The strictly increasing sequence of the elements of a set of ticks.
RECURSIVE SortedSeq(_)
SortedSeq(S) ==
    IF S = {} THEN << >>
    ELSE LET lo == CHOOSE x \in S : \A y \in S : x <= y
         IN  <<lo>> \o SortedSeq(S \ {lo})

\* Time grids: every strictly increasing sequence of ticks from t_start = 0.
Grids == {<<0>> \o SortedSeq(S) : S \in SUBSET (1..MaxT)}

\* np.arange(lo, hi, step): lo, lo + step, ... below hi.
arange(lo, hi, step) ==
    LET n == IF hi <= lo THEN 0 ELSE (hi - lo + step - 1) \div step
    IN  [i \in 1..n |-> lo + (i - 1) * step]

\* The notebooks' grids np.arange(t_start, t_end + delta_t, delta_t) with
\* t_start = 0; delta_t is one tick or more.
ArangeGrids ==
    {arange(0, end + step, step) : end \in Times, step \in 1..(MxStep + 1)}

\* Tolerances (abserr, relerr) as negative decimal exponents: the defaults
\* of Orbit.solve_ode (1e-8, 1e-8) and of Pendulum.solve_ode (1e-8, 1e-6).
OrbitTol == <<8, 8>>

PendulumTol == <<8, 6>>

Tols == {OrbitTol, PendulumTol}

----------------------------------------------------------------------------
(* Exact arithmetic standing for Python's float operators                  *)

Abs(x) == IF x < 0 THEN -x ELSE x

RECURSIVE GCD(_, _)
GCD(a, b) == IF b = 0 THEN a ELSE GCD(b, a % b)

Undef == <<0, 0>>

IsDef(x) == x[2] # 0

\* n / d in lowest terms; a zero denominator gives no value.
Rat(n, d) ==
    IF d = 0 THEN Undef
    ELSE LET g == GCD(Abs(n), Abs(d))
             s == IF d < 0 THEN -1 ELSE 1
         IN  <<(s * n) \div g, Abs(d) \div g>>

I(n) == <<n, 1>>

\* Common factors are cancelled before multiplying, to keep the integers
\* small.
RAdd(x, y) ==
    IF IsDef(x) /\ IsDef(y)
    THEN LET g == GCD(x[2], y[2])
         IN  Rat(x[1] * (y[2] \div g) + y[1] * (x[2] \div g),
                 (x[2] \div g) * y[2])
    ELSE Undef

RNeg(x) == IF IsDef(x) THEN <<-x[1], x[2]>> ELSE Undef

RSub(x, y) == RAdd(x, RNeg(y))

RMul(x, y) ==
    IF IsDef(x) /\ IsDef(y)
    THEN LET g1 == GCD(Abs(x[1]), y[2])
             g2 == GCD(Abs(y[1]), x[2])
         IN  Rat((x[1] \div g1) * (y[1] \div g2),
                 (x[2] \div g2) * (y[2] \div g1))
    ELSE Undef

\* 1 / x
RInv(x) == IF IsDef(x) THEN Rat(x[2], x[1]) ELSE Undef

RDiv(x, y) == RMul(x, RInv(y))

RAbs(x) == IF IsDef(x) THEN <<Abs(x[1]), x[2]>> ELSE Undef

RIsZero(x) == IsDef(x) /\ x[1] = 0

RGeqZero(x) == IsDef(x) /\ x[1] >= 0

RPos(x) == IsDef(x) /\ x[1] > 0

\* x ** e for an integer exponent e: 0 ** 0 = 1, and 0 ** e has no value
\* for e < 0.
RECURSIVE RPow(_, _)
RPow(x, e) ==
    IF ~IsDef(x) THEN Undef
    ELSE IF e = 0 THEN I(1)
    ELSE IF e < 0 THEN RDiv(I(1), RPow(x, -e))
    ELSE RMul(x, RPow(x, e - 1))

\* np.sin and np.cos at q quarter turns.
Sin(q) == CASE q % 4 = 0 -> 0
            [] q % 4 = 1 -> 1
            [] q % 4 = 2 -> 0
            [] q % 4 = 3 -> -1

Cos(q) == Sin(q + 1)

----------------------------------------------------------------------------
(* class Pendulum                                                          *)

Pendulum(omega_0, beta, gamma_ext, omega_ext, phi_ext) ==
    [cls |-> "Pendulum", omega_0 |-> omega_0, beta |-> beta,
     gamma_ext |-> gamma_ext, omega_ext |-> omega_ext, phi_ext |-> phi_ext]

driving_force(self, t) ==
    self.gamma_ext * self.omega_0 * self.omega_0
        * Cos(self.omega_ext * t + self.phi_ext)

\* Pendulum.dy_dt with the damping term's sign reversed.
Pendulum_dy_dt_AntiDamped(self, y, t) ==
    LET F_ext == driving_force(self, t)
    IN  <<y[2],
          -(self.omega_0 * self.omega_0) * Sin(y[1]) + 2 * self.beta * y[2]
              + F_ext>>

Pendulum_dy_dt(self, y, t) ==
    LET F_ext == driving_force(self, t)
    IN  <<y[2],
          -(self.omega_0 * self.omega_0) * Sin(y[1]) - 2 * self.beta * y[2]
              + F_ext>>

----------------------------------------------------------------------------
(* class Orbit                                                             *)

Orbit(ang_mom, n, k, mu) ==
    [cls |-> "Orbit", ang_mom |-> ang_mom, n |-> n, k |-> k, mu |-> mu]

Orbit_U(self, r) == RMul(I(self.k), RPow(r, self.n))

\* Orbit.Ucf with a guard that turns r = 0 into a zero barrier.
Orbit_Ucf_Guarded(self, r) ==
    IF RIsZero(r) THEN I(0)
    ELSE RDiv(I(self.ang_mom * self.ang_mom),
              RMul(I(2 * self.mu), RPow(r, 2)))

Orbit_Ucf(self, r) ==
    RDiv(I(self.ang_mom * self.ang_mom),
         RMul(I(2 * self.mu), RPow(r, 2)))

Orbit_Ueff(self, r) == RAdd(Orbit_U(self, r), Orbit_Ucf(self, r))

\* Orbit.U_deriv without the factor n: k * r**(n - 1).
Orbit_U_deriv_NoExponent(self, r) == RMul(I(self.k), RPow(r, self.n - 1))

Orbit_U_deriv(self, r) == RMul(I(self.n * self.k), RPow(r, self.n - 1))

Orbit_Ucf_deriv(self, r) ==
    RDiv(I(-2 * self.ang_mom * self.ang_mom),
         RMul(I(2 * self.mu), RPow(r, 3)))

Orbit_Ueff_deriv(self, r) ==
    RAdd(Orbit_U_deriv(self, r), Orbit_Ucf_deriv(self, r))

\* Orbit.dy_dt with the angular rate ang_mom/(mu*r) instead of
\* ang_mom/(mu*r**2).
Orbit_dy_dt_WrongPower(self, t, y) ==
    <<y[2],
      RMul(RDiv(I(-1), I(self.mu)), Orbit_Ueff_deriv(self, y[1])),
      RDiv(I(self.ang_mom), RMul(I(self.mu), y[1]))>>

\* Orbit.dy_dt with the radial acceleration -Ueff_deriv(r), the division
\* by mu left out.
Orbit_dy_dt_NoMass(self, t, y) ==
    <<y[2],
      RNeg(Orbit_Ueff_deriv(self, y[1])),
      RDiv(I(self.ang_mom), RMul(I(self.mu), RPow(y[1], 2)))>>

Orbit_dy_dt(self, t, y) ==
    <<y[2],
      RMul(RDiv(I(-1), I(self.mu)), Orbit_Ueff_deriv(self, y[1])),
      RDiv(I(self.ang_mom), RMul(I(self.mu), RPow(y[1], 2)))>>

----------------------------------------------------------------------------
(* class Potential                                                         *)

Potential(ang_mom, gamma, mu) ==
    [cls |-> "Potential", ang_mom |-> ang_mom, gamma |-> gamma, mu |-> mu]

\* Potential.U with the sign of a repulsive force: gamma / r.
Potential_U_Repulsive(self, r) == RDiv(I(self.gamma), r)

Potential_U(self, r) == RDiv(I(-self.gamma), r)

Potential_U_deriv(self, r) == RDiv(I(self.gamma), RPow(r, 2))

Potential_Ucf(self, r) ==
    RDiv(I(self.ang_mom * self.ang_mom),
         RMul(I(2 * self.mu), RPow(r, 2)))

Potential_Ucf_deriv(self, r) ==
    RDiv(I(-2 * self.ang_mom * self.ang_mom),
         RMul(I(2 * self.mu), RPow(r, 3)))

Potential_Ueff(self, r) == RAdd(Potential_U(self, r), Potential_Ucf(self, r))

Potential_Ueff_deriv(self, r) ==
    RAdd(Potential_U_deriv(self, r), Potential_Ucf_deriv(self, r))

----------------------------------------------------------------------------
(* The external ODE solvers, modelled by their contract.  Both advance the *)
(* state by the derivative function one tick at a time (forward Euler) and *)
(* report it at the requested times.  solve_ivp keeps the state to its     *)
(* accuracy of 1/Quantum; odeint's integer states need no rounding.        *)

VAdd(y, d) == [c \in 1..Len(y) |-> RAdd(y[c], d[c])]

VDef(y) == \A c \in 1..Len(y) : IsDef(y[c])

\* x to the solver's accuracy: the multiple of 1/Quantum just below it.
RRound(x) == IF IsDef(x) THEN Rat((x[1] * Quantum) \div x[2], Quantum)
             ELSE Undef

VRound(y) == [c \in 1..Len(y) |-> RRound(y[c])]

\* scipy.integrate.solve_ivp(fun, t_span, y0, t_eval=..., atol=..., rtol=...)
\* A step from tick t needs a finite fun(t, y); when it is not, the step
\* size collapses and the solver ends with status -1.  Requested times are
\* reported after each successful step, so a solver that fails on its
\* first step reports nothing.  The result holds one row per component.

\* The state after a step with derivative d; << >> when the step fails.
ivp_advance(p, d) == IF VDef(d) THEN VRound(VAdd(p, d)) ELSE << >>

\* One step from tick t.  fun is the bound method self.dy_dt of an Orbit,
\* given by its receiver.
ivp_step(fun, t, p) ==
    IF p = << >> THEN << >> ELSE ivp_advance(p, Orbit_dy_dt(fun, t, p))

\* The solver's result, Y[t] being the state at tick t, << >> once a step
\* has failed.
ivp_result(Y, t0, tf, y0, t_eval) ==
    LET done == {t \in t0..tf : Y[t] # << >>}
        reached == CHOOSE t \in done : \A u \in done : u <= t
        out == IF reached = t0 /\ tf # t0 THEN {}
               ELSE {i \in 1..Len(t_eval) : t_eval[i] <= reached}
        m == Cardinality(out)
    IN  [status |-> IF reached = tf THEN 0 ELSE -1,
         t |-> [i \in 1..m |-> t_eval[i]],
         y |-> IF m = 0 THEN << >>
               ELSE [c \in 1..Len(y0) |-> [i \in 1..m |-> Y[t_eval[i]][c]]]]

solve_ivp(fun, t_span, y0, t_eval, atol, rtol) ==
    LET t0 == t_span[1]
        tf == t_span[2]
        Y[t \in t0..tf] == IF t = t0 THEN y0
                           ELSE ivp_step(fun, t - 1, Y[t - 1])
    IN  ivp_result(Y, t0, tf, y0, t_eval)

\* The rows of odeint's output that are never written when it gives up.
UninitRows(t) ==
    LET bad == {i \in 2..Len(t) : t[i] - t[i - 1] > MxStep}
    IN  {i \in 2..Len(t) : \E f \in bad : f < i}

\* scipy.integrate.odeint(func, y0, t, atol=..., rtol=...)
\* The output array has one row per requested time, allocated up front;
\* row 1 is y0.  An output point further than MxStep internal steps away
\* ends the integration ("excess work"): that row holds the state reached
\* so far, the rows after it are never written (mem is what the memory
\* held), and an ODEintWarning is issued.
\* func is the bound method self.dy_dt of a Pendulum, given by its receiver.
odeint(func, y0, t, atol, rtol, mem) ==
    LET t0 == t[1]
        tf == t[Len(t)]
        Y[u \in t0..tf] == IF u = t0 THEN y0
                           ELSE LET p == Y[u - 1]
                                    d == Pendulum_dy_dt(func, p, u - 1)
                                IN  [c \in 1..Len(y0) |-> p[c] + d[c]]
        bad == {i \in 2..Len(t) : t[i] - t[i - 1] > MxStep}
        f == IF bad = {} THEN 0
             ELSE CHOOSE i \in bad : \A j \in bad : i <= j
    IN  [istate |-> IF bad = {} THEN 2 ELSE -1,
         y |-> [i \in 1..Len(t) |->
                   IF f = 0 \/ i < f THEN Y[t[i]]
                   ELSE IF i = f THEN Y[t[i - 1] + MxStep]
                   ELSE mem[i]]]

\* ndarray.T of a two-dimensional array given as a sequence of rows.
Transpose(a) ==
    IF Len(a) = 0 THEN << >>
    ELSE [c \in 1..Len(a[1]) |-> [i \in 1..Len(a) |-> a[i][c]]]

\* What a call hands back: the exception it raised, the warning it issued,
\* the value it returned.
Returned(v) == [exc |-> "none", warn |-> "none", val |-> v]

Raised(e) == [exc |-> e, warn |-> "none", val |-> << >>]

\* Pendulum.solve_ode unpacking the solver's columns in the other order.
Pendulum_solve_ode_Swapped(self, phi_0, phi_dot_0, abserr, relerr, mem) ==
    LET y == <<phi_0, phi_dot_0>>
        res == odeint(self, y, t_pts, abserr, relerr, mem)
        unpacked == Transpose(res.y)
    IN  [exc |-> "none",
         warn |-> IF res.istate < 0 THEN "ODEintWarning" ELSE "none",
         val |-> <<unpacked[2], unpacked[1]>>]

\* Pendulum.solve_ode: the grid is the notebook's global t_pts.
Pendulum_solve_ode(self, phi_0, phi_dot_0, abserr, relerr, mem) ==
    LET y == <<phi_0, phi_dot_0>>
        res == odeint(self, y, t_pts, abserr, relerr, mem)
        unpacked == Transpose(res.y)
    IN  [exc |-> "none",
         warn |-> IF res.istate < 0 THEN "ODEintWarning" ELSE "none",
         val |-> <<unpacked[1], unpacked[2]>>]

\* r, r_dot, phi = solution.y: the rows of y, when there are exactly three.
Unpack3(y) ==
    IF Len(y) # 3 THEN Raised("ValueError")
    ELSE Returned(<<y[1], y[2], y[3]>>)

\* Orbit.solve_ode without t_eval: the solver reports its own steps, one
\* per tick, instead of the requested grid.
Orbit_solve_ode_OwnSteps(self, t_pts_, r_0, r_dot_0, phi_0, abserr, relerr) ==
    LET y == <<r_0, r_dot_0, phi_0>>
        t0 == t_pts_[1]
        tf == t_pts_[Len(t_pts_)]
        solution == solve_ivp(self, <<t0, tf>>, y,
                              [i \in 1..(tf - t0 + 1) |-> t0 + i - 1],
                              abserr, relerr)
    IN  Unpack3(solution.y)

\* Orbit.solve_ode: r, r_dot, phi = solution.y needs exactly three rows.
Orbit_solve_ode(self, t_pts_, r_0, r_dot_0, phi_0, abserr, relerr) ==
    LET y == <<r_0, r_dot_0, phi_0>>
        solution == solve_ivp(self, <<t_pts_[1], t_pts_[Len(t_pts_)]>>, y,
                              t_pts_, abserr, relerr)
    IN  Unpack3(solution.y)

\* NumPy broadcasting of two one-dimensional arrays: equal lengths pair up
\* element by element, and an array of one element is repeated.
Broadcastable(a, b) == Len(a) = Len(b) \/ Len(a) = 1 \/ Len(b) = 1

BroadcastLen(a, b) == IF Len(a) = 1 THEN Len(b) ELSE Len(a)

At(a, i) == IF Len(a) = 1 THEN a[1] ELSE a[i]

\* Orbit.energy with U in place of Ueff: the centrifugal term is lost.
Orbit_energy_NoBarrier(self, t_pts_, r, r_dot) ==
    [i \in 1..BroadcastLen(r, r_dot) |->
        RAdd(RMul(Rat(self.mu, 2), RPow(At(r_dot, i), 2)),
             Orbit_U(self, At(r, i)))]

\* Orbit.energy: NumPy evaluates the expression sample by sample.
Orbit_energy(self, t_pts_, r, r_dot) ==
    [i \in 1..BroadcastLen(r, r_dot) |->
        RAdd(RMul(Rat(self.mu, 2), RPow(At(r_dot, i), 2)),
             Orbit_Ueff(self, At(r, i)))]

----------------------------------------------------------------------------
(* The Morse potential of Taylor problem 5.2                               *)
(*                                                                         *)
(* np.exp(x) has no rational value unless x = 0.  A value computed from    *)
(* it is kept exactly, as the polynomial c[1] + c[2]*E + c[3]*E^2 in       *)
(* E = exp(arg) with rational coefficients; for arg # 0 two such values    *)
(* are equal only when their coefficients are.  A value without E is kept  *)
(* with arg = 0.                                                           *)

EConst(q) == [arg |-> I(0), c |-> <<q, I(0), I(0)>>]

ENorm(p) == IF RIsZero(p.c[2]) /\ RIsZero(p.c[3]) THEN EConst(p.c[1]) ELSE p

\* np.exp(x)
exp(x) == IF RIsZero(x) THEN EConst(I(1))
          ELSE [arg |-> x, c |-> <<I(0), I(1), I(0)>>]

\* p + q for a float q
EAddConst(p, q) == [p EXCEPT !.c[1] = RAdd(@, q)]

\* p**2 for a value p = c[1] + c[2]*E
ESquare(p) ==
    ENorm([arg |-> p.arg,
           c |-> <<RMul(p.c[1], p.c[1]),
                   RMul(I(2), RMul(p.c[1], p.c[2])),
                   RMul(p.c[2], p.c[2])>>])

\* a * p for a float a
EScale(a, p) ==
    ENorm([arg |-> p.arg,
           c |-> <<RMul(a, p.c[1]), RMul(a, p.c[2]), RMul(a, p.c[3])>>])

\* U_pot without the constant that makes U vanish far away:
\*   A * (np.exp((big_R - r)/S) - 1.)**2
U_pot_NoOffset(r, S, big_R, A) ==
    IF RIsZero(S) THEN Raised("ZeroDivisionError")
    ELSE Returned(EScale(A, ESquare(EAddConst(exp(RDiv(RSub(big_R, r), S)),
                                              I(-1)))))

\* U_pot(r, S, big_R, A) for a scalar r: dividing by S = 0 raises.
U_pot(r, S, big_R, A) ==
    IF RIsZero(S) THEN Raised("ZeroDivisionError")
    ELSE Returned(
             EScale(A, EAddConst(
                           ESquare(EAddConst(exp(RDiv(RSub(big_R, r), S)),
                                             I(-1))),
                           I(-1))))

U_pot_min(S, big_R, A) == <<big_R, RNeg(A)>>

\* U_pot_sa with the constant term of the notebook's text: A + ...
U_pot_sa_PlusA(r, S, big_R, A) ==
    LET r0 == big_R
    IN  IF RIsZero(S) THEN Raised("ZeroDivisionError")
        ELSE Returned(RAdd(A, RDiv(RMul(A, RPow(RSub(r, r0), 2)),
                                   RPow(S, 2))))

\* U_pot_sa(r, S, big_R, A) for a scalar r: dividing by S**2 = 0 raises.
U_pot_sa(r, S, big_R, A) ==
    LET r0 == big_R
    IN  IF RIsZero(S) THEN Raised("ZeroDivisionError")
        ELSE Returned(RAdd(RNeg(A), RDiv(RMul(A, RPow(RSub(r, r0), 2)),
                                         RPow(S, 2))))

----------------------------------------------------------------------------
(* The notebooks' helper function and the NumPy functions of the           *)
(* diagnostics.  Array indices are Python's: the first element is index 0. *)

\* x < y on floats; no comparison holds of a value that is not finite.
RLess(x, y) == IsDef(x) /\ IsDef(y) /\ x[1] * y[2] < y[1] * x[2]

\* ndarray.argmin() keeping the last of several equal minima.
argmin_LastOnTies(a) ==
    LET best[i \in 1..Len(a)] ==
            IF i = 1 THEN 1
            ELSE IF ~RLess(a[best[i - 1]], a[i]) THEN i ELSE best[i - 1]
    IN  best[Len(a)] - 1

\* ndarray.argmin(): the index of the minimum, the first one when several
\* elements are equal to it.
argmin(a) ==
    LET best[i \in 1..Len(a)] ==
            IF i = 1 THEN 1
            ELSE IF RLess(a[i], a[best[i - 1]]) THEN i ELSE best[i - 1]
    IN  best[Len(a)] - 1

\* np.fabs(t_pts - v) for a grid of ticks.
fabs_diff(t_pts_, v) == [i \in 1..Len(t_pts_) |-> RAbs(RSub(I(t_pts_[i]), v))]

start_stop_indices(t_pts_, plot_start, plot_stop) ==
    LET start_index == argmin(fabs_diff(t_pts_, plot_start))
        stop_index == argmin(fabs_diff(t_pts_, plot_stop))
    IN  <<start_index, stop_index>>

Min(a, b) == IF a <= b THEN a ELSE b

\* a[i:j] taking the element at j as well.
Slice_ThroughStop(a, i, j) == SubSeq(a, Min(i, Len(a)) + 1, Min(j + 1, Len(a)))

\* a[i:j] for 0 <= i, 0 <= j: both ends are clipped to the array.
Slice(a, i, j) == SubSeq(a, Min(i, Len(a)) + 1, Min(j, Len(a)))

\* a[index] for an array of indices.
Take(a, indices) == [j \in 1..Len(indices) |-> a[indices[j] + 1]]

\* int(x): the integer part of a float, rounding towards zero.
int(x) == IF x[1] >= 0 THEN x[1] \div x[2] ELSE -((-x[1]) \div x[2])

\* range() that does not stop short of hi: lo, lo + step, ... up to hi.
range_ThroughStop(lo, hi, step) ==
    LET n == IF hi < lo THEN 0 ELSE ((hi - lo) \div step) + 1
    IN  [m \in 1..n |-> lo + (m - 1) * step]

\* range(lo, hi, step) for step > 0: lo, lo + step, ... below hi.
range(lo, hi, step) ==
    LET n == IF hi <= lo THEN 0 ELSE (hi - lo + step - 1) \div step
    IN  [m \in 1..n |-> lo + (m - 1) * step]

\* 2 * pi, as an angle in quarter turns.
TwoPi == I(4)

\* The N-th roots of unity for the signal lengths N whose roots have
\* rational coordinates up to one common factor: 2 * cos(2 pi j / N), and
\* sin(2 pi j / N) in units of RootUnit(N).
TwiceCos(j, N) ==
    CASE N = 1 -> 2
      [] N = 2 -> <<2, -2>>[(j % 2) + 1]
      [] N = 3 -> <<2, -1, -1>>[(j % 3) + 1]
      [] N = 4 -> <<2, 0, -2, 0>>[(j % 4) + 1]
      [] N = 6 -> <<2, 1, -1, -2, -1, 1>>[(j % 6) + 1]

SinUnits(j, N) ==
    CASE N = 1 -> 0
      [] N = 2 -> 0
      [] N = 3 -> <<0, 1, -1>>[(j % 3) + 1]
      [] N = 4 -> <<0, 1, 0, -1>>[(j % 4) + 1]
      [] N = 6 -> <<0, 1, 1, 0, -1, -1>>[(j % 6) + 1]

\* The square of the unit of SinUnits: 1, or (sqrt(3)/2)^2 for N = 3, 6.
RootUnitSq(N) == IF N \in {3, 6} THEN Rat(3, 4) ELSE I(1)

\* np.fft.fft(a) of a real array: bin k is sum_n a[n] * exp(-2 pi i k n / N).
\* A bin is <<re2, im>>: re2 / 2 + i * im * RootUnit(N).
fft(a) ==
    LET N == Len(a)
    IN  [k1 \in 1..N |->
           LET re2[n \in 0..N] ==
                   IF n = 0 THEN 0
                   ELSE re2[n - 1] + a[n] * TwiceCos((k1 - 1) * (n - 1), N)
               im[n \in 0..N] ==
                   IF n = 0 THEN 0
                   ELSE im[n - 1] - a[n] * SinUnits((k1 - 1) * (n - 1), N)
           IN  <<re2[N], im[N]>>]

\* np.abs(z)**2 of the bins of a transform of N samples.
abs_squared(z, N) ==
    [k1 \in 1..Len(z) |->
        RAdd(Rat(z[k1][1] * z[k1][1], 4),
             RMul(RootUnitSq(N), I(z[k1][2] * z[k1][2])))]

\* np.fft.fftfreq without the negative half: 0, 1, ..., n - 1 over n * d.
fftfreq_Unsigned(n, d) ==
    [k1 \in 1..n |-> Rat(k1 - 1, n * d)]

\* np.fft.fftfreq(n, d): 0, 1, ..., (n-1)//2, -(n//2), ..., -1, each
\* divided by n * d.
fftfreq(n, d) ==
    [k1 \in 1..n |->
        Rat(IF k1 - 1 <= (n - 1) \div 2 THEN k1 - 1 ELSE k1 - 1 - n, n * d)]

\* np.argsort(a) sorting downwards.
RECURSIVE argsort_Descending(_, _)
argsort_Descending(a, left) ==
    IF left = {} THEN << >>
    ELSE LET i == CHOOSE i \in left :
                     \A j \in left : RLess(a[j], a[i]) \/ (a[j] = a[i] /\ i <= j)
         IN  <<i - 1>> \o argsort_Descending(a, left \ {i})

\* np.argsort(a): the indices that put a in ascending order, found for the
\* elements at the indices of left (all of them at the start).
RECURSIVE argsort(_, _)
argsort(a, left) ==
    IF left = {} THEN << >>
    ELSE LET i == CHOOSE i \in left :
                     \A j \in left : RLess(a[i], a[j]) \/ (a[i] = a[j] /\ i <= j)
         IN  <<i - 1>> \o argsort(a, left \ {i})

----------------------------------------------------------------------------
(* Objects and arguments the calls are made with                           *)

PendulumObjs ==
    {Pendulum(wb[1], wb[2], g, wp[1], wp[2]) :
        wb \in {<<1, 0>>, <<2, 1>>}, g \in {0, 1}, wp \in {<<1, 0>>, <<2, 1>>}}

\* mu is a reduced mass: positive.
OrbitObjs ==
    {Orbit(l, nk[1], nk[2], mu) :
        l \in {0, 1, 2}, nk \in {<<-1, -3>>, <<2, 1>>}, mu \in {1, 2}}

PotentialObjs ==
    {Potential(l, g, mu) : l \in {0, 1, 2}, g \in {1, 3}, mu \in {1, 2}}

\* Parameter sets beyond those of the objects the calls are made on: every
\* sign of the exponent n, of the strength k and of the mass mu (mu # 0).
OrbitSweep ==
    {Orbit(l, n, k, mu) :
        l \in {0, 2}, n \in (-2)..2, k \in {-3, 1}, mu \in {-2, -1, 1, 2}}

\* The same for Potential: gamma and mu of either sign (mu # 0).
PotentialSweep ==
    {Potential(l, g, mu) : l \in {0, 2}, g \in {-3, 1}, mu \in {-2, -1, 1, 2}}

RVals == {Rat(i, 2) : i \in 0..(2 * MaxR)}

\* Radii of the sample arrays handed to Orbit.energy.
ERVals == {Rat(i, 2) : i \in 0..MaxR}

\* Sample arrays of one or two elements.
Arrays(S) == {<<a>> : a \in S} \cup {<<a, b>> : a \in S, b \in S}

NoCall == [method |-> "none", self |-> << >>, args |-> << >>]

Call(m, a) == [method |-> m, self |-> obj, args |-> a]

----------------------------------------------------------------------------
(* Method calls on a constructed object                                    *)

InitMethods ==
    /\ obj \in PendulumObjs \cup OrbitObjs \cup PotentialObjs
    /\ ctor = obj
    /\ t_pts \in IF obj.cls = "Pendulum" THEN ArangeGrids ELSE {<<0>>}
    /\ call = NoCall
    /\ ret = Returned(<< >>)
    /\ driving = Unbound
    /\ phi = Unbound /\ phi_dot = Unbound
    /\ r_pts = Unbound /\ r_dot_pts = Unbound /\ phi_pts = Unbound
    /\ E_tot_pts = Unbound /\ E_tot_rel_pts = Unbound
    /\ t_end = Unbound /\ delta_t = Unbound
    /\ start = Unbound /\ stop = Unbound
    /\ tau_ext = Unbound /\ delta_index = Unbound /\ stdout = Unbound
    /\ signal = Unbound /\ power_spectrum = Unbound
    /\ freqs = Unbound /\ idx = Unbound
    /\ index = Unbound /\ range_iter = Unbound
    /\ epsilon = Unbound /\ energy_0 = Unbound
    /\ pc = Unbound /\ phi_fig12_6 = Unbound
    /\ phi_k = Unbound /\ p_k = Unbound

CallDrivingForce ==
    /\ obj.cls = "Pendulum"
    /\ call = NoCall
    /\ \E t \in Times :
        /\ call' = Call("driving_force", <<t>>)
        /\ ret' = Returned(driving_force(obj, t))
    /\ UNCHANGED <<obj, ctor, t_pts, globals>>

\* A call of Pendulum.dy_dt that folds omega_0**2 into self.gamma_ext.
CallPendulumDyDt_Rescaling ==
    /\ obj.cls = "Pendulum"
    /\ call = NoCall
    /\ \E y \in YVals \X YVals, t \in Times :
        /\ call' = Call("dy_dt", <<y, t>>)
        /\ ret' = Returned(Pendulum_dy_dt(obj, y, t))
    /\ obj' = [obj EXCEPT !.gamma_ext = @ * obj.omega_0 * obj.omega_0]
    /\ UNCHANGED <<ctor, t_pts, globals>>

CallPendulumDyDt ==
    /\ obj.cls = "Pendulum"
    /\ call = NoCall
    /\ \E y \in YVals \X YVals, t \in Times :
        /\ call' = Call("dy_dt", <<y, t>>)
        /\ ret' = Returned(Pendulum_dy_dt(obj, y, t))
    /\ UNCHANGED <<obj, ctor, t_pts, globals>>

CallPendulumSolveOde ==
    /\ obj.cls = "Pendulum"
    /\ call = NoCall
    /\ \E y0 \in YVals \X YVals, tol \in Tols,
          mem \in [UninitRows(t_pts) -> {<<0, 0>>, <<1, -1>>}] :
        /\ call' = Call("solve_ode", <<y0[1], y0[2], tol[1], tol[2]>>)
        /\ ret' = Pendulum_solve_ode(obj, y0[1], y0[2], tol[1], tol[2], mem)
    /\ UNCHANGED <<obj, ctor, t_pts, globals>>

\* U, Ucf, Ueff, U_deriv, Ucf_deriv, Ueff_deriv of Orbit
OrbitPotential(self, m, r) ==
    CASE m = "U" -> Orbit_U(self, r)
      [] m = "Ucf" -> Orbit_Ucf(self, r)
      [] m = "Ueff" -> Orbit_Ueff(self, r)
      [] m = "U_deriv" -> Orbit_U_deriv(self, r)
      [] m = "Ucf_deriv" -> Orbit_Ucf_deriv(self, r)
      [] m = "Ueff_deriv" -> Orbit_Ueff_deriv(self, r)

\* U, Ucf, Ueff, U_deriv, Ucf_deriv, Ueff_deriv of Potential
PotentialPotential(self, m, r) ==
    CASE m = "U" -> Potential_U(self, r)
      [] m = "Ucf" -> Potential_Ucf(self, r)
      [] m = "Ueff" -> Potential_Ueff(self, r)
      [] m = "U_deriv" -> Potential_U_deriv(self, r)
      [] m = "Ucf_deriv" -> Potential_Ucf_deriv(self, r)
      [] m = "Ueff_deriv" -> Potential_Ueff_deriv(self, r)

PotentialMethods ==
    {"U", "Ucf", "Ueff", "U_deriv", "Ucf_deriv", "Ueff_deriv"}

CallOrbitPotential ==
    /\ obj.cls = "Orbit"
    /\ call = NoCall
    /\ \E m \in PotentialMethods, r \in RVals :
        /\ call' = Call(m, <<r>>)
        /\ ret' = Returned(OrbitPotential(obj, m, r))
    /\ UNCHANGED <<obj, ctor, t_pts, globals>>

CallPotentialPotential ==
    /\ obj.cls = "Potential"
    /\ call = NoCall
    /\ \E m \in PotentialMethods, r \in RVals :
        /\ call' = Call(m, <<r>>)
        /\ ret' = Returned(PotentialPotential(obj, m, r))
    /\ UNCHANGED <<obj, ctor, t_pts, globals>>

CallOrbitDyDt ==
    /\ obj.cls = "Orbit"
    /\ call = NoCall
    /\ \E t \in Times, r \in RVals, v \in YVals, a \in YVals :
        /\ call' = Call("dy_dt", <<t, <<r, I(v), I(a)>>>>)
        /\ ret' = Returned(Orbit_dy_dt(obj, t, <<r, I(v), I(a)>>))
    /\ UNCHANGED <<obj, ctor, t_pts, globals>>

CallOrbitSolveOde ==
    /\ obj.cls = "Orbit"
    /\ call = NoCall
    /\ \E g \in Grids, r_0 \in 0..MaxR, v \in YVals, a \in {0, 1},
          tol \in Tols :
        /\ call' = Call("solve_ode", <<g, I(r_0), I(v), I(a), tol[1], tol[2]>>)
        /\ ret' = Orbit_solve_ode(obj, g, I(r_0), I(v), I(a), tol[1], tol[2])
    /\ UNCHANGED <<obj, ctor, t_pts, globals>>

CallOrbitEnergy ==
    /\ obj.cls = "Orbit"
    /\ call = NoCall
    /\ \E r \in Arrays(ERVals), v \in Arrays(YVals), t0 \in {0, 1} :
        /\ Len(r) = Len(v)
        /\ LET t == [i \in 1..Len(r) |-> t0 + i - 1]
               r_dot == [i \in 1..Len(v) |-> I(v[i])]
           IN  /\ call' = Call("energy", <<t, r, r_dot>>)
               /\ ret' = Returned(Orbit_energy(obj, t, r, r_dot))
    /\ UNCHANGED <<obj, ctor, t_pts, globals>>

\* The statement is complete: control is back at the notebook's top level,
\* ready for the next call.
EndOfStatement ==
    /\ call # NoCall
    /\ call' = NoCall
    /\ ret' = Returned(<< >>)
    /\ UNCHANGED <<obj, ctor, t_pts, globals>>

NextMethods ==
    \/ EndOfStatement
    \/ CallDrivingForce
    \/ CallPendulumDyDt
    \/ CallPendulumSolveOde
    \/ CallOrbitPotential
    \/ CallOrbitDyDt
    \/ CallOrbitSolveOde
    \/ CallOrbitEnergy
    \/ CallPotentialPotential

SpecMethods == InitMethods /\ [][NextMethods]_vars

----------------------------------------------------------------------------
(* The notebooks' cells, run in any order and any number of times in one   *)
(* kernel.  A cell that stops with an exception keeps what it bound before *)
(* the exception.                                                          *)

\* np.linspace(lo, hi, num): num evenly spaced points, both ends included.
linspace(lo, hi, num) ==
    [i \in 1..num |-> RAdd(lo, RMul(Rat(i - 1, num - 1), RSub(hi, lo)))]

\* The pendulums of the set-up cells: omega_0, beta and phi_ext are the
\* same in all of them; gamma_ext varies, and the driving period
\* 2*pi/omega_ext is 4, 2 or 4/3 ticks.
CellPendulums == {Pendulum(2, 1, g, w, 0) : g \in {0, 1}, w \in {1, 2, 3}}

\* Initial conditions of the pendulum cells: phi_0 is 0 or -pi/2,
\* phi_dot_0 is 0.
PendulumStarts == {<<0, 0>>, <<-1, 0>>}

\* The notebook's gravity orbit, one whose energy at rest at r = 1 is 0,
\* and one without angular momentum.
CellOrbits == {Orbit(1, -1, -3, 1), Orbit(2, -1, -1, 2), Orbit(0, -1, -3, 1)}

\* Initial conditions of the orbit cell: (r_0, r_dot_0, phi_0).
OrbitStarts ==
    {<<I(rv[1]), I(rv[2]), I(0)>> : rv \in {<<1, 0>>, <<1, 1>>, <<2, 0>>}}

\* Grids of the orbit cell: delta_t is one tick, t_end is t_start or MaxT.
OrbitGrids == {arange(0, end + 1, 1) : end \in {0, MaxT}}

\* The radii of the potential plot: np.linspace(0.001, 3., 200).
PlotRadii == linspace(Rat(1, 2), I(MaxR), 2 * MaxR)

InitCells ==
    /\ obj \in CellPendulums \cup CellOrbits
    /\ ctor = obj
    /\ phi = Unbound /\ phi_dot = Unbound
    /\ r_dot_pts = Unbound /\ phi_pts = Unbound
    /\ E_tot_pts = Unbound /\ E_tot_rel_pts = Unbound
    /\ start = Unbound /\ stop = Unbound
    /\ tau_ext = Unbound /\ delta_index = Unbound /\ stdout = Unbound
    /\ signal = Unbound /\ power_spectrum = Unbound
    /\ freqs = Unbound /\ idx = Unbound
    /\ index = Unbound /\ range_iter = Unbound
    /\ epsilon = Unbound /\ energy_0 = Unbound
    /\ pc = Unbound /\ phi_fig12_6 = Unbound
    /\ phi_k = Unbound /\ p_k = Unbound
    /\ IF obj.cls = "Pendulum"
       THEN /\ t_end \in Times
            /\ delta_t \in 1..(MxStep + 1)
            /\ t_pts = arange(0, t_end + delta_t, delta_t)
            /\ driving = [i \in 1..Len(t_pts) |-> driving_force(obj, t_pts[i])]
            /\ r_pts = Unbound
            /\ call = Call("driving_force", <<t_pts>>)
            /\ ret = Returned(driving)
       ELSE /\ t_end = Unbound
            /\ delta_t = Unbound
            /\ t_pts = Unbound
            /\ driving = Unbound
            /\ r_pts = PlotRadii
            /\ call = Call("Ueff", <<r_pts>>)
            /\ ret = Returned([i \in 1..Len(r_pts) |-> Orbit_Ueff(obj, r_pts[i])])

\* Pendulum notebook, set-up cell: binds the grid, constructs p1 and
\* evaluates the driving force on the grid.
PendulumSetUpCell ==
    /\ obj.cls = "Pendulum"
    /\ \E end \in Times, step \in 1..(MxStep + 1), p \in CellPendulums :
        /\ t_end' = end
        /\ delta_t' = step
        /\ t_pts' = arange(0, end + step, step)
        /\ obj' = p
        /\ ctor' = p
        /\ driving' = [i \in 1..Len(t_pts') |-> driving_force(p, t_pts'[i])]
        /\ call' = [method |-> "driving_force", self |-> p, args |-> <<t_pts'>>]
        /\ ret' = Returned(driving')
    /\ UNCHANGED <<phi, phi_dot, r_pts, r_dot_pts, phi_pts, E_tot_pts,
                   E_tot_rel_pts, start, stop, periodicity, spectrum,
                   eccentricity, run>>

\* Pendulum notebook, solve cell: phi, phi_dot = p1.solve_ode(phi_0, phi_dot_0)
PendulumSolveCell ==
    /\ obj.cls = "Pendulum"
    /\ \E y0 \in PendulumStarts,
          mem \in [UninitRows(t_pts) -> {<<0, 0>>, <<1, -1>>}] :
        /\ call' = Call("solve_ode",
                        <<y0[1], y0[2], PendulumTol[1], PendulumTol[2]>>)
        /\ ret' = Pendulum_solve_ode(obj, y0[1], y0[2], PendulumTol[1],
                                     PendulumTol[2], mem)
        /\ phi' = ret'.val[1]
        /\ phi_dot' = ret'.val[2]
    /\ UNCHANGED <<obj, ctor, t_pts, driving, r_pts, r_dot_pts, phi_pts,
                   E_tot_pts, E_tot_rel_pts, t_end, delta_t, start, stop,
                   periodicity, spectrum,
                   eccentricity, run>>

\* Pendulum notebook, periodicity check:
\*   start, stop = start_stop_indices(t_pts, 50., 70.)
\*   tau_ext = 2.*np.pi / omega_ext
\*   delta_index = int(tau_ext / delta_t)
\*   for index in range(start, stop, delta_index):
\*       print(f'  {t_pts[index]:.1f}   {phi[index]:.4f}')
\* plot_start and plot_stop are the two literals on the model's time scale;
\* omega_ext is the global the set-up cell constructed p1 with.  range()
\* raises ValueError for a step of 0; phi[index] raises IndexError when phi
\* is an older, shorter trajectory, after the pairs before it were printed.
PeriodicityCell ==
    /\ obj.cls = "Pendulum"
    /\ phi # Unbound
    /\ \E plot_start \in Times, plot_stop \in Times :
        /\ plot_start <= plot_stop
        /\ \E w \in {start_stop_indices(t_pts, I(plot_start), I(plot_stop))},
              tau \in {RDiv(TwoPi, I(obj.omega_ext))} :
            \E step \in {int(RDiv(tau, I(delta_t)))} :
                /\ start' = w[1]
                /\ stop' = w[2]
                /\ tau_ext' = tau
                /\ delta_index' = step
                /\ call' = Call("periodicity_check",
                                <<phi, t_pts, tau, plot_start, plot_stop>>)
                /\ IF step = 0
                   THEN /\ stdout' = << >>
                        /\ ret' = Raised("ValueError")
                        /\ UNCHANGED index
                   ELSE LET visited == range(w[1], w[2], step)
                            done == {m \in 1..Len(visited) :
                                        \A j \in 1..m : visited[j] < Len(phi)}
                        IN  /\ stdout' =
                                  [m \in 1..Cardinality(done) |->
                                      <<t_pts[visited[m] + 1],
                                        phi[visited[m] + 1]>>]
                            /\ ret' = IF Cardinality(done) = Len(visited)
                                      THEN Returned(stdout')
                                      ELSE Raised("IndexError")
                            /\ index' =
                                  IF Len(visited) = 0 THEN index
                                  ELSE visited[Min(Cardinality(done) + 1,
                                                   Len(visited))]
    /\ UNCHANGED <<obj, ctor, t_pts, driving, phi, phi_dot, r_pts, r_dot_pts,
                   phi_pts, E_tot_pts, E_tot_rel_pts, t_end, delta_t,
                   range_iter, spectrum, eccentricity, run>>

\* The power-spectrum cell removing the signal's offset in place:
\*   signal -= signal[0]
\* signal is a view of phi, so the samples of phi in the window change too.
PowerSpectrumCell_InPlace ==
    /\ obj.cls = "Pendulum"
    /\ phi # Unbound
    /\ \E plot_start \in Times :
        \E w \in {start_stop_indices(t_pts, I(plot_start), I(t_end))} :
        \E sig \in {Slice(phi, w[1], w[2])} :
            /\ start' = w[1]
            /\ stop' = w[2]
            /\ call' = Call("power_spectrum", <<sig, delta_t>>)
            /\ IF Len(sig) = 0
               THEN /\ ret' = Raised("ValueError")
                    /\ signal' = sig
                    /\ UNCHANGED <<phi, power_spectrum, freqs, idx>>
               ELSE /\ signal' = [i \in 1..Len(sig) |-> sig[i] - sig[1]]
                    /\ phi' = [i \in 1..Len(phi) |->
                                  IF w[1] < i /\ i <= w[2] THEN phi[i] - sig[1]
                                  ELSE phi[i]]
                    /\ power_spectrum' = abs_squared(fft(signal'), Len(sig))
                    /\ freqs' = LET f == fftfreq(Len(sig), delta_t)
                                IN  [k1 \in 1..Len(sig) |-> RMul(TwoPi, f[k1])]
                    /\ idx' = argsort(freqs', 1..Len(sig))
                    /\ ret' = Returned(<<Take(freqs', idx'),
                                         Take(power_spectrum', idx')>>)
    /\ UNCHANGED <<obj, ctor, t_pts, driving, phi_dot, r_pts, r_dot_pts,
                   phi_pts, E_tot_pts, E_tot_rel_pts, t_end, delta_t,
                   periodicity, eccentricity, run>>

\* The periodicity check, one step of its for loop at a time.  range_iter
\* is the iterator of range(start, stop, delta_index) while the loop runs:
\* <<the index it yields next, stop, step>>.
\*
\* The statements before the first iteration; range() raises ValueError for
\* a step of 0.
LoopEnter ==
    /\ obj.cls = "Pendulum"
    /\ phi # Unbound
    /\ range_iter = Unbound
    /\ \E plot_start \in Times, plot_stop \in Times :
        /\ plot_start <= plot_stop
        /\ \E w \in {start_stop_indices(t_pts, I(plot_start), I(plot_stop))},
              tau \in {RDiv(TwoPi, I(obj.omega_ext))} :
            \E step \in {int(RDiv(tau, I(delta_t)))} :
                /\ start' = w[1]
                /\ stop' = w[2]
                /\ tau_ext' = tau
                /\ delta_index' = step
                /\ call' = Call("periodicity_check",
                                <<phi, t_pts, tau, plot_start, plot_stop>>)
                /\ stdout' = << >>
                /\ IF step = 0
                   THEN /\ ret' = Raised("ValueError")
                        /\ UNCHANGED range_iter
                   ELSE /\ ret' = Returned(stdout')
                        /\ range_iter' = <<w[1], w[2], step>>
    /\ UNCHANGED <<obj, ctor, t_pts, driving, phi, phi_dot, r_pts, r_dot_pts,
                   phi_pts, E_tot_pts, E_tot_rel_pts, t_end, delta_t,
                   index, spectrum, eccentricity, run>>

\* The iterator stopping only once it has gone past stop.
LoopExit_PastStop ==
    /\ range_iter # Unbound
    /\ range_iter[1] > range_iter[2]
    /\ range_iter' = Unbound
    /\ UNCHANGED <<obj, ctor, t_pts, call, ret, driving, phi, phi_dot, r_pts,
                   r_dot_pts, phi_pts, E_tot_pts, E_tot_rel_pts, t_end,
                   delta_t, start, stop, tau_ext, delta_index, index, stdout,
                   spectrum, eccentricity, run>>

\* One iteration: the iterator yields an index below stop, the body prints
\* the pair at it.  phi[index] raises IndexError past the end of phi.
LoopNext ==
    /\ range_iter # Unbound
    /\ range_iter[1] < range_iter[2]
    /\ index' = range_iter[1]
    /\ IF index' < Len(phi)
       THEN /\ stdout' = Append(stdout, <<t_pts[index' + 1], phi[index' + 1]>>)
            /\ ret' = Returned(stdout')
            /\ range_iter' = <<range_iter[1] + range_iter[3], range_iter[2],
                               range_iter[3]>>
       ELSE /\ ret' = Raised("IndexError")
            /\ range_iter' = Unbound
            /\ UNCHANGED stdout
    /\ UNCHANGED <<obj, ctor, t_pts, call, driving, phi, phi_dot, r_pts,
                   r_dot_pts, phi_pts, E_tot_pts, E_tot_rel_pts, t_end,
                   delta_t, start, stop, tau_ext, delta_index,
                   spectrum, eccentricity, run>>

\* The iterator is exhausted: the loop, and the cell, ends.
LoopExit ==
    /\ range_iter # Unbound
    /\ range_iter[1] >= range_iter[2]
    /\ range_iter' = Unbound
    /\ UNCHANGED <<obj, ctor, t_pts, call, ret, driving, phi, phi_dot, r_pts,
                   r_dot_pts, phi_pts, E_tot_pts, E_tot_rel_pts, t_end,
                   delta_t, start, stop, tau_ext, delta_index, index, stdout,
                   spectrum, eccentricity, run>>

\* The solve cell, run when no other cell is running.
LoopSolveCell ==
    /\ range_iter = Unbound
    /\ PendulumSolveCell

\* Pendulum notebook, power-spectrum cell:
\*   start, stop = start_stop_indices(t_pts, 20., t_end)
\*   signal = phi[start:stop]
\*   power_spectrum = np.abs(np.fft.fft(signal))**2
\*   freqs = 2.*np.pi * np.fft.fftfreq(signal.size, delta_t)
\*   idx = np.argsort(freqs)
\*   ax_ps.semilogy(freqs[idx], power_spectrum[idx], color='blue')
\* plot_start is the literal 20. on the model's time scale.  np.fft.fft
\* raises ValueError for an empty signal.
PowerSpectrumCell ==
    /\ obj.cls = "Pendulum"
    /\ phi # Unbound
    /\ \E plot_start \in Times :
        \E w \in {start_stop_indices(t_pts, I(plot_start), I(t_end))} :
        \E sig \in {Slice(phi, w[1], w[2])} :
            /\ start' = w[1]
            /\ stop' = w[2]
            /\ signal' = sig
            /\ call' = Call("power_spectrum", <<sig, delta_t>>)
            /\ IF Len(sig) = 0
               THEN /\ ret' = Raised("ValueError")
                    /\ UNCHANGED <<power_spectrum, freqs, idx>>
               ELSE /\ power_spectrum' = abs_squared(fft(sig), Len(sig))
                    /\ freqs' = LET f == fftfreq(Len(sig), delta_t)
                                IN  [k1 \in 1..Len(sig) |-> RMul(TwoPi, f[k1])]
                    /\ idx' = argsort(freqs', 1..Len(sig))
                    /\ ret' = Returned(<<Take(freqs', idx'),
                                         Take(power_spectrum', idx')>>)
    /\ UNCHANGED <<obj, ctor, t_pts, driving, phi, phi_dot, r_pts, r_dot_pts,
                   phi_pts, E_tot_pts, E_tot_rel_pts, t_end, delta_t,
                   periodicity, eccentricity, run>>

\* Orbit notebook, potential cell: constructs o1 and evaluates U, Ucf and
\* Ueff on the plot radii.
OrbitSetUpCell ==
    /\ obj.cls = "Orbit"
    /\ \E o \in CellOrbits :
        /\ obj' = o
        /\ ctor' = o
        /\ r_pts' = PlotRadii
        /\ call' = [method |-> "Ueff", self |-> o, args |-> <<r_pts'>>]
        /\ ret' = Returned([i \in 1..Len(r_pts') |-> Orbit_Ueff(o, r_pts'[i])])
    /\ UNCHANGED <<t_pts, driving, phi, phi_dot, r_dot_pts, phi_pts,
                   E_tot_pts, E_tot_rel_pts, t_end, delta_t, start, stop,
                   periodicity, spectrum,
                   eccentricity, run>>

\* c = o1.ang_mom**2 / (np.abs(o1.k) * o1.mu): the length scale of the orbit.
OrbitScale(o) ==
    RDiv(I(o.ang_mom * o.ang_mom), RMul(I(Abs(o.k)), I(o.mu)))

\* The orbit notebook's solve cell printing c / r_0 as the eccentricity.
OrbitSolveCell_NoMinusOne ==
    /\ obj.cls = "Orbit"
    /\ \E g \in OrbitGrids, y0 \in OrbitStarts :
        \E res \in {Orbit_solve_ode(obj, g, y0[1], y0[2], y0[3], OrbitTol[1],
                                    OrbitTol[2])} :
            /\ t_end' = g[Len(g)]
            /\ delta_t' = 1
            /\ t_pts' = g
            /\ IF res.exc = "none"
               THEN /\ r_pts' = res.val[1]
                    /\ r_dot_pts' = res.val[2]
                    /\ phi_pts' = res.val[3]
                    /\ call' = Call("Ueff", <<y0[1]>>)
                    /\ ret' = Returned(Orbit_Ueff(obj, y0[1]))
                    /\ epsilon' = RDiv(OrbitScale(obj), y0[1])
                    /\ energy_0' = RAdd(RMul(Rat(obj.mu, 2), RPow(y0[2], 2)),
                                        ret'.val)
               ELSE /\ call' = Call("solve_ode",
                                    <<g, y0[1], y0[2], y0[3], OrbitTol[1],
                                      OrbitTol[2]>>)
                    /\ ret' = res
                    /\ UNCHANGED <<r_pts, r_dot_pts, phi_pts, eccentricity>>
    /\ UNCHANGED <<obj, ctor, driving, phi, phi_dot, E_tot_pts, E_tot_rel_pts,
                   start, stop, periodicity, spectrum, run>>

\* Orbit notebook, solve cell: binds the grid, integrates, and prints the
\* initial energy and the eccentricity:
\*   c = o1.ang_mom**2 / (np.abs(o1.k) * o1.mu)
\*   epsilon = c / r_0 - 1.
\*   energy_0 = o1.mu/2. * r_dot_0**2 + o1.Ueff(r_0)
\* A solve_ode that raises ends the cell before these lines.
OrbitSolveCell ==
    /\ obj.cls = "Orbit"
    /\ \E g \in OrbitGrids, y0 \in OrbitStarts :
        \E res \in {Orbit_solve_ode(obj, g, y0[1], y0[2], y0[3], OrbitTol[1],
                                    OrbitTol[2])} :
            /\ t_end' = g[Len(g)]
            /\ delta_t' = 1
            /\ t_pts' = g
            /\ IF res.exc = "none"
               THEN /\ r_pts' = res.val[1]
                    /\ r_dot_pts' = res.val[2]
                    /\ phi_pts' = res.val[3]
                    /\ call' = Call("Ueff", <<y0[1]>>)
                    /\ ret' = Returned(Orbit_Ueff(obj, y0[1]))
                    /\ epsilon' = RSub(RDiv(OrbitScale(obj), y0[1]), I(1))
                    /\ energy_0' = RAdd(RMul(Rat(obj.mu, 2), RPow(y0[2], 2)),
                                        ret'.val)
               ELSE /\ call' = Call("solve_ode",
                                    <<g, y0[1], y0[2], y0[3], OrbitTol[1],
                                      OrbitTol[2]>>)
                    /\ ret' = res
                    /\ UNCHANGED <<r_pts, r_dot_pts, phi_pts, eccentricity>>
    /\ UNCHANGED <<obj, ctor, driving, phi, phi_dot, E_tot_pts, E_tot_rel_pts,
                   start, stop, periodicity, spectrum, run>>

\* The energy cell leaving the reference sample out of the series:
\*   E_tot_rel_pts = np.abs((E_tot_pts[1:] - E_tot_0)/E_tot_0)
EnergyCell_WithoutReference ==
    /\ obj.cls = "Orbit"
    /\ r_dot_pts # Unbound
    /\ call' = Call("energy", <<t_pts, r_pts, r_dot_pts>>)
    /\ IF Broadcastable(r_pts, r_dot_pts)
       THEN LET E == Orbit_energy(obj, t_pts, r_pts, r_dot_pts)
                E_tot_0 == E[1]
            IN  /\ ret' = Returned(E)
                /\ E_tot_pts' = E
                /\ E_tot_rel_pts' =
                      [i \in 1..(Len(E) - 1) |->
                          RAbs(RDiv(RSub(E[i + 1], E_tot_0), E_tot_0))]
       ELSE /\ ret' = Raised("ValueError")
            /\ UNCHANGED <<E_tot_pts, E_tot_rel_pts>>
    /\ UNCHANGED <<obj, ctor, t_pts, driving, phi, phi_dot, r_pts, r_dot_pts,
                   phi_pts, t_end, delta_t, start, stop, periodicity,
                   spectrum, eccentricity, run>>

\* The energy cell taking the last sample as the reference:
\*   E_tot_0 = E_tot_pts[-1]
EnergyCell_LastReference ==
    /\ obj.cls = "Orbit"
    /\ r_dot_pts # Unbound
    /\ call' = Call("energy", <<t_pts, r_pts, r_dot_pts>>)
    /\ IF Broadcastable(r_pts, r_dot_pts)
       THEN LET E == Orbit_energy(obj, t_pts, r_pts, r_dot_pts)
                E_tot_0 == E[Len(E)]
            IN  /\ ret' = Returned(E)
                /\ E_tot_pts' = E
                /\ E_tot_rel_pts' =
                      [i \in 1..Len(E) |->
                          RAbs(RDiv(RSub(E[i], E_tot_0), E_tot_0))]
       ELSE /\ ret' = Raised("ValueError")
            /\ UNCHANGED <<E_tot_pts, E_tot_rel_pts>>
    /\ UNCHANGED <<obj, ctor, t_pts, driving, phi, phi_dot, r_pts, r_dot_pts,
                   phi_pts, t_end, delta_t, start, stop, periodicity,
                   spectrum, eccentricity, run>>

\* The energy cell refusing a zero reference energy:
\*   if E_tot_0 == 0: raise ZeroDivisionError
EnergyCell_CheckedReference ==
    /\ obj.cls = "Orbit"
    /\ r_dot_pts # Unbound
    /\ call' = Call("energy", <<t_pts, r_pts, r_dot_pts>>)
    /\ IF Broadcastable(r_pts, r_dot_pts)
       THEN LET E == Orbit_energy(obj, t_pts, r_pts, r_dot_pts)
                E_tot_0 == E[1]
            IN  /\ E_tot_pts' = E
                /\ IF RIsZero(E_tot_0)
                   THEN /\ ret' = Raised("ZeroDivisionError")
                        /\ UNCHANGED E_tot_rel_pts
                   ELSE /\ ret' = Returned(E)
                        /\ E_tot_rel_pts' =
                              [i \in 1..Len(E) |->
                                  RAbs(RDiv(RSub(E[i], E_tot_0), E_tot_0))]
       ELSE /\ ret' = Raised("ValueError")
            /\ UNCHANGED <<E_tot_pts, E_tot_rel_pts>>
    /\ UNCHANGED <<obj, ctor, t_pts, driving, phi, phi_dot, r_pts, r_dot_pts,
                   phi_pts, t_end, delta_t, start, stop, periodicity,
                   spectrum, eccentricity, run>>

\* Orbit notebook, energy cell:
\*   E_tot_pts = o1.energy(t_pts, r_pts, r_dot_pts)
\*   E_tot_0 = E_tot_pts[0]
\*   E_tot_rel_pts = np.abs((E_tot_pts - E_tot_0)/E_tot_0)
\* Before the solve cell has run r_dot_pts is no name (NameError) and the
\* cell binds nothing; arrays that do not broadcast raise ValueError.
EnergyCell ==
    /\ obj.cls = "Orbit"
    /\ r_dot_pts # Unbound
    /\ call' = Call("energy", <<t_pts, r_pts, r_dot_pts>>)
    /\ IF Broadcastable(r_pts, r_dot_pts)
       THEN LET E == Orbit_energy(obj, t_pts, r_pts, r_dot_pts)
                E_tot_0 == E[1]
            IN  /\ ret' = Returned(E)
                /\ E_tot_pts' = E
                /\ E_tot_rel_pts' =
                      [i \in 1..Len(E) |->
                          RAbs(RDiv(RSub(E[i], E_tot_0), E_tot_0))]
       ELSE /\ ret' = Raised("ValueError")
            /\ UNCHANGED <<E_tot_pts, E_tot_rel_pts>>
    /\ UNCHANGED <<obj, ctor, t_pts, driving, phi, phi_dot, r_pts, r_dot_pts,
                   phi_pts, t_end, delta_t, start, stop, periodicity,
                   spectrum, eccentricity, run>>

NextCells ==
    \/ PendulumSetUpCell
    \/ PendulumSolveCell
    \/ OrbitSetUpCell
    \/ OrbitSolveCell
    \/ EnergyCell

SpecCells == InitCells /\ [][NextCells]_vars

\* The cells that integrate and post-process, run in any order and any
\* number of times after the notebook's set-up cell has run once.
NextDiagnostics ==
    \/ PendulumSolveCell
    \/ PeriodicityCell
    \/ PowerSpectrumCell
    \/ OrbitSolveCell
    \/ EnergyCell

SpecDiagnostics == InitCells /\ [][NextDiagnostics]_vars

\* The pendulum notebook after its set-up cell: the solve cell and the
\* periodicity check, the check advancing one iteration at a time.
InitLoop ==
    /\ InitCells
    /\ obj.cls = "Pendulum"

NextLoop ==
    \/ LoopSolveCell
    \/ LoopEnter
    \/ LoopNext
    \/ LoopExit

SpecLoop == InitLoop /\ [][NextLoop]_vars

\* A running cell is never suspended: the interpreter goes on to the next
\* step of the loop for as long as there is one.
SpecLoopFair == SpecLoop /\ WF_vars(LoopNext) /\ WF_vars(LoopExit)

----------------------------------------------------------------------------
(* The pendulum notebook run from top to bottom, one statement after the   *)
(* other.  A statement that raises ends the run.                           *)

\* Times of the run: delta_t = 0.01 is one tick, t_end = 100. is ShortEnd
\* ticks and t_end = 500. is LongEnd ticks; a literal time of the notebook
\* keeps its place relative to t_end = 100.
RunStep == 1
ShortEnd == 5
LongEnd == 7

Ticks(seconds) == Rat(seconds * ShortEnd, 100)

\* The statements of the notebook.
\* t_end = ...; t_pts = np.arange(...); p1 = Pendulum(...) [; p2 ... p4]
SetUp(end, n) == [op |-> "setup", t_end |-> end, n |-> n]

\* phi, phi_dot = p1.solve_ode(phi_0, phi_dot_0) with phi_dot_0 = 0.
Solve(phi_0) == [op |-> "solve", phi_0 |-> phi_0]

\* phi_k, phi_dot_k = pk.solve_ode(phi_0, phi_dot_0)
SolveK(k, phi_0) == [op |-> "solve_k", k |-> k, phi_0 |-> phi_0]

\* phi_fig12_6 = phi
Keep == [op |-> "keep"]

\* start, stop = start_stop_indices(t_pts, plot_start, plot_stop)
Window(plot_start, plot_stop) ==
    [op |-> "window", plot_start |-> plot_start, plot_stop |-> plot_stop]

\* plot_y_vs_x(x[start : stop], y[start : stop], ...)
Plot(x, y) == [op |-> "plot", x |-> x, y |-> y]

\* The periodicity check of a figure.
Periodicity(plot_start, plot_stop) ==
    [op |-> "periodicity", plot_start |-> plot_start, plot_stop |-> plot_stop]

\* The power spectrum of a figure, of phi from plot_start to t_end.
Spectrum(plot_start) == [op |-> "spectrum", plot_start |-> plot_start]

\* The three panels of a figure: phi against t in one window, the state
\* space in two.
Panels(w1, w2, w3) ==
    <<Window(w1[1], w1[2]), Plot("t_pts", "phi"),
      Window(w2[1], w2[2]), Plot("phi", "phi_dot"),
      Window(w3[1], w3[2]), Plot("phi", "phi_dot")>>

Figure12_4 ==
    <<SetUp(ShortEnd, 1), Solve(0)>>
        \o Panels(<<0, 15>>, <<0, 15>>, <<10, 30>>)
        \o <<Periodicity(50, 70), Spectrum(20)>>

Figure12_5 ==
    <<SetUp(ShortEnd, 1), Solve(0)>>
        \o Panels(<<0, 30>>, <<0, 15>>, <<30, 50>>)
        \o <<Periodicity(50, 70), Spectrum(20)>>

Figure12_6 ==
    <<SetUp(ShortEnd, 1), Solve(0), Keep>>
        \o Panels(<<0, 40>>, <<0, 15>>, <<20, 100>>)
        \o <<Periodicity(50, 70), Spectrum(20)>>

\* Figure 12.7: the first panel also shows the trajectory of Figure 12.6,
\* up to overlay_stop.
Figure12_7(overlay_stop) ==
    <<SetUp(LongEnd, 1), Solve(-1),
      Window(0, overlay_stop), Plot("t_pts", "phi"),
      Plot("t_pts", "phi_fig12_6"),
      Window(0, 15), Plot("phi", "phi_dot"),
      Window(20, 100), Plot("phi", "phi_dot"),
      Periodicity(50, 70), Spectrum(20)>>

\* The two panels of one of the four pendulums of Figure 12.8.
PanelsK(name) ==
    <<Window(0, 10), Plot("t_pts", name),
      Window(28, 40), Plot("t_pts", name)>>

Figure12_8 ==
    <<SetUp(ShortEnd, 4),
      SolveK(1, -1), SolveK(2, -1), SolveK(3, -1), SolveK(4, -1)>>
        \o PanelsK("phi_1") \o PanelsK("phi_2")
        \o PanelsK("phi_3") \o PanelsK("phi_4")

\* The notebook with the overlay of Figure 12.7 drawn up to t = 500.
Notebook_WideOverlay ==
    Figure12_4 \o Figure12_5 \o Figure12_6 \o Figure12_7(500) \o Figure12_8

Notebook ==
    Figure12_4 \o Figure12_5 \o Figure12_6 \o Figure12_7(40) \o Figure12_8

\* The global an argument of plot_y_vs_x names.
Fetch(name) ==
    CASE name = "t_pts" -> t_pts
      [] name = "phi" -> phi
      [] name = "phi_dot" -> phi_dot
      [] name = "phi_fig12_6" -> phi_fig12_6
      [] name = "phi_1" -> phi_k[1]
      [] name = "phi_2" -> phi_k[2]
      [] name = "phi_3" -> phi_k[3]
      [] name = "phi_4" -> phi_k[4]

\* plot_y_vs_x(x, y): ax.plot raises ValueError when x and y differ in
\* length; otherwise the line drawn is returned.
plot_y_vs_x(x, y) ==
    IF Len(x) = Len(y) THEN Returned(<<x, y>>) ELSE Raised("ValueError")

\* The kernel after the first statement, the set-up of Figure 12.4.
InitRun ==
    /\ obj \in CellPendulums
    /\ ctor = obj
    /\ t_end = ShortEnd
    /\ delta_t = RunStep
    /\ t_pts = arange(0, t_end + delta_t, delta_t)
    /\ driving = [i \in 1..Len(t_pts) |-> driving_force(obj, t_pts[i])]
    /\ call = Call("driving_force", <<t_pts>>)
    /\ ret = Returned(driving)
    /\ phi = Unbound /\ phi_dot = Unbound
    /\ r_pts = Unbound /\ r_dot_pts = Unbound /\ phi_pts = Unbound
    /\ E_tot_pts = Unbound /\ E_tot_rel_pts = Unbound
    /\ start = Unbound /\ stop = Unbound
    /\ tau_ext = Unbound /\ delta_index = Unbound /\ stdout = Unbound
    /\ signal = Unbound /\ power_spectrum = Unbound
    /\ freqs = Unbound /\ idx = Unbound
    /\ index = Unbound /\ range_iter = Unbound
    /\ epsilon = Unbound /\ energy_0 = Unbound
    /\ pc = 2
    /\ phi_fig12_6 = Unbound /\ phi_k = Unbound /\ p_k = Unbound

\* The statement at pc is of kind op, and no statement has raised.
AtStatement(op) ==
    /\ pc \in 1..Len(Notebook)
    /\ ret.exc = "none"
    /\ Notebook[pc].op = op

\* A set-up cell.  omega_0, beta, omega_ext and phi_ext are the same in
\* every set-up cell of the notebook; gamma_ext differs.
RunSetUp ==
    /\ AtStatement("setup")
    /\ \E g \in [1..Notebook[pc].n -> {0, 1}] :
        \E ps \in {[k \in 1..Notebook[pc].n |->
                       Pendulum(obj.omega_0, obj.beta, g[k], obj.omega_ext,
                                obj.phi_ext)]} :
            /\ t_end' = Notebook[pc].t_end
            /\ delta_t' = RunStep
            /\ t_pts' = arange(0, t_end' + delta_t', delta_t')
            /\ obj' = ps[1]
            /\ ctor' = ps[1]
            /\ p_k' = IF Len(ps) > 1 THEN ps ELSE p_k
            /\ driving' = [i \in 1..Len(t_pts') |->
                              driving_force(ps[1], t_pts'[i])]
            /\ call' = [method |-> "driving_force", self |-> ps[1],
                        args |-> <<t_pts'>>]
            /\ ret' = Returned(driving')
    /\ pc' = pc + 1
    /\ UNCHANGED <<phi, phi_dot, r_pts, r_dot_pts, phi_pts, E_tot_pts,
                   E_tot_rel_pts, start, stop, periodicity, spectrum,
                   eccentricity, phi_fig12_6, phi_k>>

RunSolve ==
    /\ AtStatement("solve")
    /\ \E mem \in [UninitRows(t_pts) -> {<<0, 0>>, <<1, -1>>}] :
        /\ call' = Call("solve_ode", <<Notebook[pc].phi_0, 0, PendulumTol[1],
                                       PendulumTol[2]>>)
        /\ ret' = Pendulum_solve_ode(obj, Notebook[pc].phi_0, 0,
                                     PendulumTol[1], PendulumTol[2], mem)
        /\ phi' = ret'.val[1]
        /\ phi_dot' = ret'.val[2]
    /\ pc' = pc + 1
    /\ UNCHANGED <<obj, ctor, t_pts, driving, r_pts, r_dot_pts, phi_pts,
                   E_tot_pts, E_tot_rel_pts, t_end, delta_t, start, stop,
                   periodicity, spectrum, eccentricity, phi_fig12_6, phi_k,
                   p_k>>

\* phi_dot_1 .. phi_dot_4 are bound as well; no later statement reads them.
RunSolveK ==
    /\ AtStatement("solve_k")
    /\ \E mem \in [UninitRows(t_pts) -> {<<0, 0>>, <<1, -1>>}] :
        /\ call' = [method |-> "solve_ode", self |-> p_k[Notebook[pc].k],
                    args |-> <<Notebook[pc].phi_0, 0, PendulumTol[1],
                               PendulumTol[2]>>]
        /\ ret' = Pendulum_solve_ode(p_k[Notebook[pc].k], Notebook[pc].phi_0,
                                     0, PendulumTol[1], PendulumTol[2], mem)
        /\ phi_k' = IF Notebook[pc].k <= Len(phi_k)
                    THEN [phi_k EXCEPT ![Notebook[pc].k] = ret'.val[1]]
                    ELSE Append(phi_k, ret'.val[1])
    /\ pc' = pc + 1
    /\ UNCHANGED <<obj, ctor, t_pts, driving, phi, phi_dot, r_pts, r_dot_pts,
                   phi_pts, E_tot_pts, E_tot_rel_pts, t_end, delta_t, start,
                   stop, periodicity, spectrum, eccentricity, phi_fig12_6,
                   p_k>>

RunKeep ==
    /\ AtStatement("keep")
    /\ phi_fig12_6' = phi
    /\ pc' = pc + 1
    /\ UNCHANGED <<obj, ctor, t_pts, call, ret, driving, phi, phi_dot, r_pts,
                   r_dot_pts, phi_pts, E_tot_pts, E_tot_rel_pts, t_end,
                   delta_t, start, stop, periodicity, spectrum, eccentricity,
                   phi_k, p_k>>

RunWindow ==
    /\ AtStatement("window")
    /\ \E w \in {start_stop_indices(t_pts, Ticks(Notebook[pc].plot_start),
                                     Ticks(Notebook[pc].plot_stop))} :
        /\ start' = w[1]
        /\ stop' = w[2]
        /\ call' = Call("start_stop_indices",
                        <<t_pts, Ticks(Notebook[pc].plot_start),
                          Ticks(Notebook[pc].plot_stop)>>)
        /\ ret' = Returned(w)
    /\ pc' = pc + 1
    /\ UNCHANGED <<obj, ctor, t_pts, driving, phi, phi_dot, r_pts, r_dot_pts,
                   phi_pts, E_tot_pts, E_tot_rel_pts, t_end, delta_t,
                   periodicity, spectrum, eccentricity, phi_fig12_6, phi_k,
                   p_k>>

RunPlot ==
    /\ AtStatement("plot")
    /\ \E x \in {Slice(Fetch(Notebook[pc].x), start, stop)},
          y \in {Slice(Fetch(Notebook[pc].y), start, stop)} :
        /\ call' = Call("plot_y_vs_x", <<x, y>>)
        /\ ret' = plot_y_vs_x(x, y)
    /\ pc' = IF ret'.exc = "none" THEN pc + 1 ELSE pc
    /\ UNCHANGED <<obj, ctor, t_pts, driving, phi, phi_dot, r_pts, r_dot_pts,
                   phi_pts, E_tot_pts, E_tot_rel_pts, t_end, delta_t, start,
                   stop, periodicity, spectrum, eccentricity, phi_fig12_6,
                   phi_k, p_k>>

\* The periodicity check, as in PeriodicityCell, with the window of the
\* statement.
RunPeriodicity ==
    /\ AtStatement("periodicity")
    /\ \E w \in {start_stop_indices(t_pts, Ticks(Notebook[pc].plot_start),
                                     Ticks(Notebook[pc].plot_stop))},
          tau \in {RDiv(TwoPi, I(obj.omega_ext))} :
        \E step \in {int(RDiv(tau, I(delta_t)))} :
            /\ start' = w[1]
            /\ stop' = w[2]
            /\ tau_ext' = tau
            /\ delta_index' = step
            /\ call' = Call("periodicity_check",
                            <<phi, t_pts, tau, Ticks(Notebook[pc].plot_start),
                              Ticks(Notebook[pc].plot_stop)>>)
            /\ IF step = 0
               THEN /\ stdout' = << >>
                    /\ ret' = Raised("ValueError")
                    /\ UNCHANGED index
               ELSE LET visited == range(w[1], w[2], step)
                        done == {m \in 1..Len(visited) :
                                    \A j \in 1..m : visited[j] < Len(phi)}
                    IN  /\ stdout' =
                              [m \in 1..Cardinality(done) |->
                                  <<t_pts[visited[m] + 1],
                                    phi[visited[m] + 1]>>]
                        /\ ret' = IF Cardinality(done) = Len(visited)
                                  THEN Returned(stdout')
                                  ELSE Raised("IndexError")
                        /\ index' =
                              IF Len(visited) = 0 THEN index
                              ELSE visited[Min(Cardinality(done) + 1,
                                               Len(visited))]
    /\ pc' = IF ret'.exc = "none" THEN pc + 1 ELSE pc
    /\ UNCHANGED <<obj, ctor, t_pts, driving, phi, phi_dot, r_pts, r_dot_pts,
                   phi_pts, E_tot_pts, E_tot_rel_pts, t_end, delta_t,
                   range_iter, spectrum, eccentricity, phi_fig12_6, phi_k,
                   p_k>>

\* The power spectrum, as in PowerSpectrumCell, from the statement's
\* plot_start.
RunSpectrum ==
    /\ AtStatement("spectrum")
    /\ \E w \in {start_stop_indices(t_pts, Ticks(Notebook[pc].plot_start),
                                     I(t_end))} :
        \E sig \in {Slice(phi, w[1], w[2])} :
            /\ start' = w[1]
            /\ stop' = w[2]
            /\ signal' = sig
            /\ call' = Call("power_spectrum", <<sig, delta_t>>)
            /\ IF Len(sig) = 0
               THEN /\ ret' = Raised("ValueError")
                    /\ UNCHANGED <<power_spectrum, freqs, idx>>
               ELSE /\ power_spectrum' = abs_squared(fft(sig), Len(sig))
                    /\ freqs' = LET f == fftfreq(Len(sig), delta_t)
                                IN  [k1 \in 1..Len(sig) |-> RMul(TwoPi, f[k1])]
                    /\ idx' = argsort(freqs', 1..Len(sig))
                    /\ ret' = Returned(<<Take(freqs', idx'),
                                         Take(power_spectrum', idx')>>)
    /\ pc' = IF ret'.exc = "none" THEN pc + 1 ELSE pc
    /\ UNCHANGED <<obj, ctor, t_pts, driving, phi, phi_dot, r_pts, r_dot_pts,
                   phi_pts, E_tot_pts, E_tot_rel_pts, t_end, delta_t,
                   periodicity, eccentricity, phi_fig12_6, phi_k, p_k>>

NextRun ==
    \/ RunSetUp
    \/ RunSolve
    \/ RunSolveK
    \/ RunKeep
    \/ RunWindow
    \/ RunPlot
    \/ RunPeriodicity
    \/ RunSpectrum

SpecRun == InitRun /\ [][NextRun]_vars

----------------------------------------------------------------------------
(* Calls of the notebooks' functions that belong to no class              *)

\* The values start_stop_indices is asked for: on the grid, half-way
\* between two grid points, and off either end of the grid.
Targets == {Rat(i, 2) : i \in (-1)..(2 * MaxT + 1)}

FunctionCall(m, a) == [method |-> m, self |-> << >>, args |-> a]

InitFunctions ==
    /\ obj = Unbound
    /\ ctor = Unbound
    /\ t_pts = Unbound
    /\ call = NoCall
    /\ ret = Returned(<< >>)
    /\ driving = Unbound
    /\ phi = Unbound /\ phi_dot = Unbound
    /\ r_pts = Unbound /\ r_dot_pts = Unbound /\ phi_pts = Unbound
    /\ E_tot_pts = Unbound /\ E_tot_rel_pts = Unbound
    /\ t_end = Unbound /\ delta_t = Unbound
    /\ start = Unbound /\ stop = Unbound
    /\ tau_ext = Unbound /\ delta_index = Unbound /\ stdout = Unbound
    /\ signal = Unbound /\ power_spectrum = Unbound
    /\ freqs = Unbound /\ idx = Unbound
    /\ index = Unbound /\ range_iter = Unbound
    /\ epsilon = Unbound /\ energy_0 = Unbound
    /\ pc = Unbound /\ phi_fig12_6 = Unbound
    /\ phi_k = Unbound /\ p_k = Unbound

CallStartStopIndices ==
    /\ call = NoCall
    /\ \E g \in Grids, plot_start \in Targets, plot_stop \in Targets :
        /\ call' = FunctionCall("start_stop_indices",
                                <<g, plot_start, plot_stop>>)
        /\ ret' = Returned(start_stop_indices(g, plot_start, plot_stop))
    /\ UNCHANGED <<obj, ctor, t_pts, globals>>

\* The Morse parameters the functions are called with: S of either sign and
\* 0, the length big_R, the depth A of either sign and 0.
MorseS == {I(-1), I(0), Rat(1, 2), I(1)}

MorseR == {I(0), I(1), I(2)}

MorseA == {I(-1), I(0), I(1), I(2)}

CallUPot ==
    /\ call = NoCall
    /\ \E r \in RVals, S \in MorseS, big_R \in MorseR, A \in MorseA :
        /\ call' = FunctionCall("U_pot", <<r, S, big_R, A>>)
        /\ ret' = U_pot(r, S, big_R, A)
    /\ UNCHANGED <<obj, ctor, t_pts, globals>>

CallUPotMin ==
    /\ call = NoCall
    /\ \E S \in MorseS, big_R \in MorseR, A \in MorseA :
        /\ call' = FunctionCall("U_pot_min", <<S, big_R, A>>)
        /\ ret' = Returned(U_pot_min(S, big_R, A))
    /\ UNCHANGED <<obj, ctor, t_pts, globals>>

CallUPotSa ==
    /\ call = NoCall
    /\ \E r \in RVals, S \in MorseS, big_R \in MorseR, A \in MorseA :
        /\ call' = FunctionCall("U_pot_sa", <<r, S, big_R, A>>)
        /\ ret' = U_pot_sa(r, S, big_R, A)
    /\ UNCHANGED <<obj, ctor, t_pts, globals>>

NextFunctions ==
    \/ EndOfStatement
    \/ CallStartStopIndices
    \/ CallUPot
    \/ CallUPotMin
    \/ CallUPotSa

SpecFunctions == InitFunctions /\ [][NextFunctions]_vars

----------------------------------------------------------------------------
(* Properties of the method calls                                          *)

PendulumCall(m) == call.method = m /\ call.self.cls = "Pendulum"

OrbitCall(m) == call.method = m /\ call.self.cls = "Orbit"

\* The state the derivative function leads to, tick by tick, from y0 at t0.
RECURSIVE OrbitStateAt(_, _, _, _)
OrbitStateAt(self, t0, y0, t) ==
    IF t = t0 THEN y0
    ELSE LET p == OrbitStateAt(self, t0, y0, t - 1)
         IN  VRound(VAdd(p, Orbit_dy_dt(self, t - 1, p)))

RECURSIVE PendulumStateAt(_, _, _, _)
PendulumStateAt(self, t0, y0, t) ==
    IF t = t0 THEN y0
    ELSE LET p == PendulumStateAt(self, t0, y0, t - 1)
             d == Pendulum_dy_dt(self, p, t - 1)
         IN  <<p[1] + d[1], p[2] + d[2]>>

\* Whether the solver gives up on the call that was just made.
OrbitSolverFails ==
    LET a == call.args
    IN  solve_ivp(call.self, <<a[1][1], a[1][Len(a[1])]>>,
                  <<a[2], a[3], a[4]>>, a[1], a[5], a[6]).status = -1

PendulumSolverFails == \E i \in 2..Len(t_pts) : t_pts[i] - t_pts[i - 1] > MxStep

C3_FailureSurfaced ==
    /\ (OrbitCall("solve_ode") /\ OrbitSolverFails) => ret.exc # "none"
    /\ (PendulumCall("solve_ode") /\ PendulumSolverFails) => ret.exc # "none"

\* C4: the coordinates packed at positions 0, 1, 2 (0, 1 for the pendulum)
\* come back as the first, second, third returned sequence, and the first
\* sample of each is the packed initial value itself.
C4_PackUnpackOrder ==
    /\ (OrbitCall("solve_ode") /\ ret.exc = "none") =>
          LET g == call.args[1]
              y0 == <<call.args[2], call.args[3], call.args[4]>>
          IN  \A c \in 1..3 :
                /\ ret.val[c][1] = y0[c]
                /\ \A i \in 1..Len(ret.val[c]) :
                      ret.val[c][i] = OrbitStateAt(call.self, g[1], y0, g[i])[c]
    /\ (PendulumCall("solve_ode") /\ ~PendulumSolverFails) =>
          LET y0 == <<call.args[1], call.args[2]>>
          IN  /\ Len(ret.val) = 2
              /\ \A c \in 1..2 :
                    /\ ret.val[c][1] = y0[c]
                    /\ Len(ret.val[c]) = Len(t_pts)
                    /\ \A i \in 1..Len(t_pts) :
                          ret.val[c][i] =
                              PendulumStateAt(call.self, t_pts[1], y0, t_pts[i])[c]

\* C4 witness: a pendulum trajectory of several samples from an initial
\* state whose two coordinates differ.
C4_Witness ==
    /\ PendulumCall("solve_ode")
    /\ ~PendulumSolverFails
    /\ call.args[1] # call.args[2]
    /\ Len(ret.val[1]) >= 3
    /\ ret.val[1] # ret.val[2]

\* C5: every attribute of the object still has the value its constructor
\* was given, whatever methods have been called.
C5_ParametersFixed == obj = ctor

\* C5 witness: a method has been called and has returned.
C5_Witness ==
    /\ call.method = "solve_ode"
    /\ ret.exc = "none"
    /\ obj = ctor

\* C6: Pendulum.dy_dt(y, t) = [y[1], restoring + damping + driving_force(t)]
\* and t enters through driving_force alone.
C6_PendulumDerivative ==
    PendulumCall("dy_dt") =>
        LET p == call.self
            y == call.args[1]
            t == call.args[2]
            restoring == -(p.omega_0 ^ 2) * Sin(y[1])
            damping == -2 * p.beta * y[2]
            forcing == p.gamma_ext * p.omega_0 ^ 2
                           * Cos(p.omega_ext * t + p.phi_ext)
        IN  /\ ret.exc = "none"
            /\ Len(ret.val) = 2
            /\ ret.val[1] = y[2]
            /\ ret.val[2] = restoring + damping + forcing
            /\ driving_force(p, t) = forcing
            /\ \A u \in Times :
                  Pendulum_dy_dt(p, y, u)[2] - driving_force(p, u)
                      = ret.val[2] - driving_force(p, t)
            /\ p.gamma_ext = 0 =>
                  \A u \in Times : Pendulum_dy_dt(p, y, u) = ret.val

\* C6 witness: a call in which none of the three terms vanishes.
C6_Witness ==
    /\ PendulumCall("dy_dt")
    /\ Sin(call.args[1][1]) # 0
    /\ call.self.beta # 0
    /\ call.args[1][2] # 0
    /\ driving_force(call.self, call.args[2]) # 0

\* C7: for r = y[0] > 0, Orbit.dy_dt(t, y) is
\* [y[1], -(U_deriv(r) + Ucf_deriv(r))/mu, ang_mom/(mu*r^2)], so that
\* mu*r^2*dphi/dt = ang_mom, and neither t nor y[2] matters.
C7_OrbitDerivative ==
    (OrbitCall("dy_dt") /\ RPos(call.args[2][1])) =>
        LET o == call.self
            y == call.args[2]
            r == y[1]
        IN  /\ ret.val =
                 <<y[2],
                   RDiv(RNeg(RAdd(Orbit_U_deriv(o, r), Orbit_Ucf_deriv(o, r))),
                        I(o.mu)),
                   RDiv(I(o.ang_mom), RMul(I(o.mu), RMul(r, r)))>>
            /\ RMul(RMul(I(o.mu), RMul(r, r)), ret.val[3]) = I(o.ang_mom)
            /\ \A u \in Times, a \in YVals :
                  Orbit_dy_dt(o, u, <<r, y[2], I(a)>>) = ret.val

\* C7 witness: a call at positive radius with non-zero angular momentum
\* and a non-zero radial acceleration.
C7_Witness ==
    /\ OrbitCall("dy_dt")
    /\ RPos(call.args[2][1])
    /\ call.self.ang_mom # 0
    /\ ~RIsZero(ret.val[2])
    /\ ret.val[1] # I(0)

\* C8: at r > 0 Orbit.dy_dt and the Ucf, Ucf_deriv, Ueff of Orbit and of
\* Potential have a value; at r = 0 they have none, and nothing replaces it.
C8_RadiusMustBePositive ==
    /\ (call.method \in {"Ucf", "Ucf_deriv", "Ueff"}) =>
          /\ ret.exc = "none"
          /\ RPos(call.args[1]) => IsDef(ret.val)
          /\ RIsZero(call.args[1]) => ~IsDef(ret.val)
    /\ OrbitCall("dy_dt") =>
          /\ ret.exc = "none"
          /\ RPos(call.args[2][1]) => VDef(ret.val)
          /\ RIsZero(call.args[2][1]) =>
                (~IsDef(ret.val[2]) /\ ~IsDef(ret.val[3]))

\* C8 witness: the derivative asked for at r = 0.
C8_Witness ==
    /\ OrbitCall("dy_dt")
    /\ RIsZero(call.args[2][1])
    /\ ~VDef(ret.val)

\* C9: Orbit.energy returns one value per sample,
\* (mu/2)*r_dot[i]^2 + U(r[i]) + Ucf(r[i]), whatever t_pts is and whatever
\* the other samples are.
C9_EnergyPerSample ==
    OrbitCall("energy") =>
        LET o == call.self
            r == call.args[2]
            r_dot == call.args[3]
        IN  /\ ret.exc = "none"
            /\ Len(ret.val) = Len(r)
            /\ \A i \in 1..Len(r) :
                  /\ ret.val[i] =
                        RAdd(RAdd(RMul(Rat(o.mu, 2), RMul(r_dot[i], r_dot[i])),
                                  Orbit_U(o, r[i])),
                             Orbit_Ucf(o, r[i]))
                  /\ \A g \in Grids :
                        Orbit_energy(o, g, <<r[i]>>, <<r_dot[i]>>)[1] = ret.val[i]

\* C9 witness: two samples with different energies, all three terms present.
C9_Witness ==
    /\ OrbitCall("energy")
    /\ Len(ret.val) = 2
    /\ IsDef(ret.val[1]) /\ IsDef(ret.val[2])
    /\ ret.val[1] # ret.val[2]
    /\ call.self.ang_mom # 0
    /\ call.args[3][1] # I(0)

\* The rate of change of Orbit.energy along a derivative d at the state y:
\* mu*r_dot*d(r_dot)/dt + Ueff_deriv(r)*dr/dt.
EnergyRate(self, y, d) ==
    RAdd(RMul(RMul(I(self.mu), y[2]), d[2]),
         RMul(Orbit_Ueff_deriv(self, y[1]), d[1]))

\* C23: at every state with r > 0 the derivative Orbit.dy_dt returns leaves
\* the energy of Orbit.energy unchanged to first order:
\* mu*r_dot*d(r_dot)/dt + Ueff_deriv(r)*dr/dt = 0, for the object the call
\* was made on and for every other parameter set with mu # 0.
C23_DerivativeConservesEnergy ==
    (OrbitCall("dy_dt") /\ RPos(call.args[2][1])) =>
        LET t == call.args[1]
            y == call.args[2]
        IN  /\ ret.exc = "none"
            /\ EnergyRate(call.self, y, ret.val) = I(0)
            /\ \A o \in OrbitSweep :
                  EnergyRate(o, y, Orbit_dy_dt(o, t, y)) = I(0)

\* C23 witness: a call at r > 0 on a moving state, where both terms of the
\* rate are non-zero and cancel.
C23_Witness ==
    /\ OrbitCall("dy_dt")
    /\ RPos(call.args[2][1])
    /\ call.self.mu # 1
    /\ ~RIsZero(call.args[2][2])
    /\ ~RIsZero(ret.val[2])
    /\ ~RIsZero(RMul(Orbit_Ueff_deriv(call.self, call.args[2][1]), ret.val[1]))

\* A call of one of the six potential methods of the class cls.
PotentialCall(cls) == call.method \in PotentialMethods /\ call.self.cls = cls

\* The three relations of C24 for an Orbit at radius r.
OrbitDerivsConsistent(o, r) ==
    /\ RMul(r, Orbit_U_deriv(o, r)) = RMul(I(o.n), Orbit_U(o, r))
    /\ RMul(r, Orbit_Ucf_deriv(o, r)) = RMul(I(-2), Orbit_Ucf(o, r))
    /\ Orbit_Ueff_deriv(o, r) = RAdd(Orbit_U_deriv(o, r), Orbit_Ucf_deriv(o, r))

\* The three relations of C24 for a Potential at radius r.
PotentialDerivsConsistent(o, r) ==
    /\ RMul(r, Potential_U_deriv(o, r)) = RNeg(Potential_U(o, r))
    /\ RMul(r, Potential_Ucf_deriv(o, r)) = RMul(I(-2), Potential_Ucf(o, r))
    /\ Potential_Ueff_deriv(o, r) =
          RAdd(Potential_U_deriv(o, r), Potential_Ucf_deriv(o, r))

\* C24: at r > 0 what U_deriv returns times r is n times what U returns
\* (minus what U returns, in Potential), what Ucf_deriv returns times r is
\* -2 times what Ucf returns, and what Ueff_deriv returns is the sum of the
\* two derivatives; for the object of the call and every other parameter
\* set with mu # 0.
C24_DerivativesConsistent ==
    /\ (PotentialCall("Orbit") /\ RPos(call.args[1])) =>
          LET o == call.self
              r == call.args[1]
          IN  /\ ret.exc = "none"
              /\ call.method = "U_deriv" =>
                    RMul(r, ret.val) = RMul(I(o.n), Orbit_U(o, r))
              /\ call.method = "Ucf_deriv" =>
                    RMul(r, ret.val) = RMul(I(-2), Orbit_Ucf(o, r))
              /\ call.method = "Ueff_deriv" =>
                    ret.val = RAdd(Orbit_U_deriv(o, r), Orbit_Ucf_deriv(o, r))
              /\ \A q \in OrbitSweep \cup {o} : OrbitDerivsConsistent(q, r)
    /\ (PotentialCall("Potential") /\ RPos(call.args[1])) =>
          LET o == call.self
              r == call.args[1]
          IN  /\ ret.exc = "none"
              /\ call.method = "U_deriv" =>
                    RMul(r, ret.val) = RNeg(Potential_U(o, r))
              /\ call.method = "Ucf_deriv" =>
                    RMul(r, ret.val) = RMul(I(-2), Potential_Ucf(o, r))
              /\ call.method = "Ueff_deriv" =>
                    ret.val = RAdd(Potential_U_deriv(o, r),
                                   Potential_Ucf_deriv(o, r))
              /\ \A q \in PotentialSweep \cup {o} :
                    PotentialDerivsConsistent(q, r)

\* C24 witness: Ueff_deriv of an Orbit asked for at a radius r > 0, r # 1,
\* where the two derivatives are non-zero and do not cancel.
C24_Witness ==
    /\ PotentialCall("Orbit")
    /\ call.method = "Ueff_deriv"
    /\ RPos(call.args[1])
    /\ call.args[1] # I(1)
    /\ ~RIsZero(Orbit_U_deriv(call.self, call.args[1]))
    /\ ~RIsZero(Orbit_Ucf_deriv(call.self, call.args[1]))
    /\ ~RIsZero(ret.val)

\* The Orbit that stands for gravity of strength gamma, and the Potential
\* that stands for an Orbit with n = -1.
GravityOrbit(p) == Orbit(p.ang_mom, -1, -p.gamma, p.mu)

GravityPotential(o) == Potential(o.ang_mom, -o.k, o.mu)

\* C25: at r > 0 each of U, U_deriv, Ucf, Ucf_deriv, Ueff, Ueff_deriv of
\* Potential(ang_mom, gamma, mu) returns what the method of the same name
\* of Orbit(ang_mom, n = -1, k = -gamma, mu) returns, and the other way
\* round; for the object of the call and for every other parameter set
\* with mu # 0.
C25_ModelsAgreeOnGravity ==
    /\ (PotentialCall("Potential") /\ RPos(call.args[1])) =>
          LET r == call.args[1]
          IN  /\ ret.exc = "none"
              /\ ret.val =
                    OrbitPotential(GravityOrbit(call.self), call.method, r)
              /\ \A q \in PotentialSweep, m \in PotentialMethods :
                    PotentialPotential(q, m, r) =
                        OrbitPotential(GravityOrbit(q), m, r)
    /\ (PotentialCall("Orbit") /\ call.self.n = -1 /\ RPos(call.args[1])) =>
          /\ ret.exc = "none"
          /\ ret.val = PotentialPotential(GravityPotential(call.self),
                                          call.method, call.args[1])

\* C25 witness: Ueff_deriv of a Potential with angular momentum asked for
\* at a radius r > 0, r # 1, where it is non-zero.
C25_Witness ==
    /\ PotentialCall("Potential")
    /\ call.method = "Ueff_deriv"
    /\ call.self.ang_mom # 0
    /\ call.self.mu # 1
    /\ RPos(call.args[1])
    /\ call.args[1] # I(1)
    /\ ~RIsZero(ret.val)

----------------------------------------------------------------------------
(* Properties of the notebook cells                                        *)

\* What the memory of odeint's output array holds when it is all zeros.
ZeroMem == [i \in 1..(MaxT + 1) |-> <<0, 0>>]

\* C2 (as claimed): the trajectory a successful p1.solve_ode call returned
\* is what the same call, with equal parameters and equal arguments, returns
\* after whatever cell runs next.
C2_SameCallSameTrajectory ==
    [][\A p \in CellPendulums, y0 \in PendulumStarts :
          (/\ PendulumCall("solve_ode")
           /\ ret.warn = "none"
           /\ call.self = p
           /\ call.args = <<y0[1], y0[2], PendulumTol[1], PendulumTol[2]>>)
          => (Pendulum_solve_ode(p, y0[1], y0[2], PendulumTol[1],
                                 PendulumTol[2], ZeroMem))' = ret]_vars

\* C10: once the energy cell has run with a non-zero E_tot_pts[0],
\* E_tot_rel_pts has one element per energy sample, element i is
\* abs((E[i] - E[0]) / E[0]), every element is >= 0 and element 0 is
\* exactly 0.  Energies are those of samples with r # 0: at r = 0 there is
\* no energy value (C8) and so none to compare with 0.
C10_RelativeEnergyDrift ==
    (/\ E_tot_pts # Unbound
     /\ IsDef(E_tot_pts[1])
     /\ ~RIsZero(E_tot_pts[1])) =>
        /\ Len(E_tot_rel_pts) = Len(E_tot_pts)
        /\ \A i \in 1..Len(E_tot_pts) :
              /\ E_tot_rel_pts[i] =
                    RAbs(RDiv(RSub(E_tot_pts[i], E_tot_pts[1]), E_tot_pts[1]))
              /\ IsDef(E_tot_pts[i]) => RGeqZero(E_tot_rel_pts[i])
        /\ E_tot_rel_pts[1] = I(0)

\* C10 witness: the energy cell has run on a trajectory of several samples
\* whose energy starts non-zero and drifts.
C10_Witness ==
    /\ OrbitCall("energy")
    /\ E_tot_pts # Unbound
    /\ Len(E_tot_pts) >= 3
    /\ IsDef(E_tot_pts[1]) /\ ~RIsZero(E_tot_pts[1])
    /\ \E i \in 2..Len(E_tot_pts) : RPos(E_tot_rel_pts[i])

\* C11 (as claimed): when the energy cell runs on a trajectory of length 1,
\* it reports a DomainError or leaves an empty relative-change series.
C11_LengthOneReported ==
    (/\ OrbitCall("energy")
     /\ Len(call.args[1]) = 1
     /\ Len(call.args[2]) = 1
     /\ Len(call.args[3]) = 1) =>
        \/ ret.exc = "DomainError"
        \/ ret.exc = "none" /\ E_tot_rel_pts = << >>

\* C11: when the energy cell runs on a trajectory of length 1 it raises
\* nothing and binds a relative-change series of exactly one element: 0 when
\* E_tot_pts[0] is a finite non-zero number, no finite value otherwise.
C11_LengthOneSeries ==
    (/\ OrbitCall("energy")
     /\ Len(call.args[1]) = 1
     /\ Len(call.args[2]) = 1
     /\ Len(call.args[3]) = 1) =>
        /\ ret.exc = "none"
        /\ Len(E_tot_pts) = 1
        /\ Len(E_tot_rel_pts) = 1
        /\ E_tot_rel_pts[1] =
              IF IsDef(E_tot_pts[1]) /\ ~RIsZero(E_tot_pts[1]) THEN I(0)
              ELSE Undef

\* C11 witness: the energy cell has run on a one-sample trajectory with a
\* non-zero energy.
C11_Witness ==
    /\ OrbitCall("energy")
    /\ Len(call.args[1]) = 1
    /\ Len(call.args[2]) = 1
    /\ Len(call.args[3]) = 1
    /\ ret.exc = "none"
    /\ ~RIsZero(E_tot_pts[1])
    /\ E_tot_rel_pts = <<I(0)>>

\* C22: the energy cell never tests its reference value.  Whenever the
\* arrays broadcast it raises nothing, and when the first energy sample is
\* exactly 0 the series has one element per sample and every element is the
\* result of a division by zero: none has a finite value.
C22_ZeroReferenceUnchecked ==
    OrbitCall("energy") =>
        /\ Broadcastable(call.args[2], call.args[3]) => ret.exc = "none"
        /\ (ret.exc = "none" /\ RIsZero(E_tot_pts[1])) =>
              /\ ret.val = E_tot_pts
              /\ Len(E_tot_rel_pts) = Len(E_tot_pts)
              /\ \A i \in 1..Len(E_tot_pts) :
                    /\ E_tot_rel_pts[i] =
                          RAbs(RDiv(RSub(E_tot_pts[i], E_tot_pts[1]), I(0)))
                    /\ ~IsDef(E_tot_rel_pts[i])

\* C22 witness: the energy cell has run on a trajectory of several samples
\* that starts with energy exactly 0 and then leaves it.
C22_Witness ==
    /\ OrbitCall("energy")
    /\ ret.exc = "none"
    /\ Len(E_tot_pts) >= 3
    /\ RIsZero(E_tot_pts[1])
    /\ \E i \in 2..Len(E_tot_pts) : IsDef(E_tot_pts[i]) /\ ~RIsZero(E_tot_pts[i])
    /\ \A i \in 1..Len(E_tot_rel_pts) : ~IsDef(E_tot_rel_pts[i])

\* The orbit notebook's solve cell has just run to its end: its last call
\* was o1.Ueff(r_0), r_0 being the first radius of the trajectory.
SolveCellPrinted ==
    /\ OrbitCall("Ueff")
    /\ epsilon # Unbound
    /\ call.args = <<r_pts[1]>>

\* What C26 says of the printed values, for r_0 and the object o.
EccentricityFormula(o, r_0) ==
    LET scale == RDiv(I(o.ang_mom * o.ang_mom), I(Abs(o.k) * o.mu))
        eps == RSub(RDiv(scale, r_0), I(1))
    IN  /\ epsilon = eps
        /\ energy_0 = RMul(RDiv(I(o.k * o.k * o.mu),
                                I(2 * o.ang_mom * o.ang_mom)),
                           RSub(RMul(eps, eps), I(1)))
        /\ RLess(energy_0, I(0)) <=> (RLess(I(-1), eps) /\ RLess(eps, I(1)))

\* C26 (as claimed): for n = -1, k < 0, mu > 0, r_0 > 0 and r_dot_0 = 0 the
\* printed energy_0 is (k^2*mu/(2*ang_mom^2))*(epsilon^2 - 1) and is negative
\* exactly when -1 < epsilon < 1.
C26_EccentricityClassifiesAll ==
    (/\ SolveCellPrinted
     /\ obj.n = -1 /\ obj.k < 0 /\ obj.mu > 0
     /\ RPos(call.args[1])
     /\ RIsZero(r_dot_pts[1])) =>
        EccentricityFormula(obj, call.args[1])

\* C26: for n = -1, k < 0, mu > 0, ang_mom # 0, r_0 > 0 and r_dot_0 = 0
\* the printed energy_0, which is (mu/2)*r_dot_0^2 + Ueff(r_0), equals
\* (k^2*mu/(2*ang_mom^2))*(epsilon^2 - 1) for the printed
\* epsilon = c/r_0 - 1, and is negative exactly when -1 < epsilon < 1.
C26_EccentricityClassifies ==
    (/\ SolveCellPrinted
     /\ obj.n = -1 /\ obj.k < 0 /\ obj.mu > 0 /\ obj.ang_mom # 0
     /\ RPos(call.args[1])
     /\ RIsZero(r_dot_pts[1])) =>
        /\ energy_0 = RAdd(RMul(Rat(obj.mu, 2), RPow(r_dot_pts[1], 2)),
                           Orbit_Ueff(obj, call.args[1]))
        /\ EccentricityFormula(obj, call.args[1])

\* C26 witness: the solve cell has printed a negative energy and an
\* eccentricity strictly between -1 and 0 for an orbit started at rest.
C26_Witness ==
    /\ SolveCellPrinted
    /\ obj.n = -1 /\ obj.k < 0 /\ obj.mu > 0 /\ obj.ang_mom # 0
    /\ RIsZero(r_dot_pts[1])
    /\ RLess(energy_0, I(0))
    /\ RLess(I(-1), epsilon) /\ RLess(epsilon, I(0))

----------------------------------------------------------------------------
(* Properties of the diagnostics                                           *)

\* C12: after the power-spectrum cell has run on a signal of N samples, idx
\* is a permutation of 0..N-1, freqs[idx] is ascending, the plotted pair is
\* (freqs[idx], power_spectrum[idx]), element j of power_spectrum[idx] is
\* the squared magnitude of the transform of the signal at the angular
\* frequency freqs[idx][j], that is
\*   sum_m sum_n signal[m] * signal[n] * cos(freqs[idx][j] * (m - n) * delta_t),
\* and every power is >= 0.
C12_PowerSpectrumSorted ==
    (PendulumCall("power_spectrum") /\ ret.exc = "none") =>
        LET N == Len(signal)
            bin(f) == RMul(f, Rat(N * delta_t, 4))
            pairs(k) ==
                LET acc[q \in 0..(N * N)] ==
                        IF q = 0 THEN 0
                        ELSE LET m == ((q - 1) \div N) + 1
                                 n == ((q - 1) % N) + 1
                             IN  acc[q - 1] + signal[m] * signal[n]
                                                  * TwiceCos(k * (m - n), N)
                IN  Rat(acc[N * N], 2)
        IN  /\ N >= 1
            /\ Len(power_spectrum) = N /\ Len(freqs) = N /\ Len(idx) = N
            /\ {idx[j] : j \in 1..N} = 0..(N - 1)
            /\ \A j \in 1..(N - 1) :
                  RLess(freqs[idx[j] + 1], freqs[idx[j + 1] + 1])
            /\ ret.val = <<[j \in 1..N |-> freqs[idx[j] + 1]],
                           [j \in 1..N |-> power_spectrum[idx[j] + 1]]>>
            /\ \A j \in 1..N :
                  /\ bin(ret.val[1][j])[2] = 1
                  /\ ret.val[2][j] = pairs(bin(ret.val[1][j])[1])
                  /\ RGeqZero(ret.val[2][j])

\* C12 witness: a spectrum of three or more bins that are not all equal,
\* whose sorted order differs from the order of the transform.
C12_Witness ==
    /\ PendulumCall("power_spectrum")
    /\ ret.exc = "none"
    /\ Len(signal) >= 3
    /\ idx[1] # 0
    /\ \E j \in 1..Len(signal) : ret.val[2][j] # ret.val[2][1]
    /\ \E j \in 1..Len(signal) : ~RIsZero(power_spectrum[j]) /\ freqs[j] # I(0)

\* The iterations range(start, stop, delta_index) yields: the ceiling of
\* (stop - start) / delta_index.
LoopIterations == (stop - start + delta_index - 1) \div delta_index

\* While and after the loop runs: a step of 0 ends the cell with ValueError
\* before anything is printed; otherwise iteration m is at index
\* start + (m - 1) * delta_index, there are never more than LoopIterations
\* of them, and the loop ends after exactly that many.
LoopProgress ==
    PendulumCall("periodicity_check") =>
        /\ start <= stop
        /\ delta_index >= 0
        /\ delta_index = 0 =>
              /\ ret.exc = "ValueError"
              /\ stdout = << >>
              /\ range_iter = Unbound
        /\ delta_index >= 1 =>
              /\ Len(stdout) <= LoopIterations
              /\ range_iter # Unbound =>
                    range_iter = <<start + Len(stdout) * delta_index, stop,
                                   delta_index>>
              /\ range_iter = Unbound =>
                    /\ ret.exc = "none"
                    /\ Len(stdout) = LoopIterations

\* C29: the periodicity-check loop always finishes: once entered it ends,
\* after exactly ceil((stop - start) / delta_index) iterations when
\* delta_index >= 1 and start <= stop; with delta_index = 0 it stops with an
\* error before its first iteration.
C29_LoopAlwaysFinishes ==
    /\ []LoopProgress
    /\ (range_iter # Unbound) ~> (range_iter = Unbound)

\* C29 witness: a loop that has ended after two iterations, from index 0 in
\* steps of 2 to below index 3, the ceiling of 3/2.
C29_Witness ==
    /\ PendulumCall("periodicity_check")
    /\ range_iter = Unbound
    /\ ret.exc = "none"
    /\ delta_index = 2
    /\ stop - start = 3
    /\ Len(stdout) = 2
    /\ index = 2

\* C30: for a signal of N >= 1 samples the sorted angular frequencies
\* freqs[idx] are the N distinct values 2*pi*m/(N*delta_t) for
\* m = -floor(N/2), ..., ceil(N/2) - 1 in strictly increasing order, idx is
\* the rotation ceil(N/2), ..., N - 1, 0, ..., ceil(N/2) - 1 of the bins
\* (bins counted modulo N), and the zero-frequency bin 0 is at sorted
\* position floor(N/2).
C30_SortedFrequencies ==
    (PendulumCall("power_spectrum") /\ ret.exc = "none") =>
        LET N == Len(signal)
            floorHalf == N \div 2
            ceilHalf == (N + 1) \div 2
            sorted == Take(freqs, idx)
        IN  /\ N >= 1
            /\ Len(sorted) = N
            /\ \A j \in 1..N :
                  /\ sorted[j] = RMul(TwoPi, Rat(j - 1 - floorHalf, N * delta_t))
                  /\ idx[j] = (ceilHalf + j - 1) % N
            /\ \A i \in 1..N : \A j \in 1..N :
                  i < j => RLess(sorted[i], sorted[j])
            /\ sorted[N] = RMul(TwoPi, Rat(ceilHalf - 1, N * delta_t))
            /\ idx[floorHalf + 1] = 0
            /\ RIsZero(sorted[floorHalf + 1])
            /\ ret.val[1] = sorted

\* C30 witness: a signal of an odd number of samples, three, where
\* floor(N/2) and ceil(N/2) differ: the bins are plotted in the order 2, 0, 1.
C30_Witness ==
    /\ PendulumCall("power_spectrum")
    /\ ret.exc = "none"
    /\ Len(signal) = 3
    /\ idx = <<2, 0, 1>>
    /\ RLess(Take(freqs, idx)[1], I(0))

\* C13: the periodicity check prints, in increasing order of index, exactly
\* the indices start + m*delta_index (m = 0, 1, 2, ...) that are below stop,
\* and the pair printed for an index is (t_pts[index], phi[index]).
C13_PeriodicityPairs ==
    (PendulumCall("periodicity_check") /\ ret.exc = "none") =>
        LET below == {m \in 0..stop : start + m * delta_index < stop}
        IN  /\ delta_index > 0
            /\ ret.val = stdout
            /\ Len(stdout) = Cardinality(below)
            /\ \A m \in 1..Len(stdout) :
                  LET visited == start + (m - 1) * delta_index
                  IN  /\ m - 1 \in below
                      /\ stdout[m] = <<t_pts[visited + 1], phi[visited + 1]>>

\* C13 witness: two or more pairs printed, more than one grid step apart,
\* with different values.
C13_Witness ==
    /\ PendulumCall("periodicity_check")
    /\ ret.exc = "none"
    /\ delta_index >= 2
    /\ Len(stdout) >= 2
    /\ stdout[1][2] # stdout[2][2]

\* C14 (as claimed): the m-th time the periodicity check prints is
\* t_pts[start] + m*tau_ext, whatever tau_ext and delta_t are.
C14_SamplesOncePerPeriod ==
    (PendulumCall("periodicity_check") /\ ret.exc = "none") =>
        \A m \in 1..Len(stdout) :
            I(stdout[m][1]) = RAdd(I(t_pts[start + 1]), RMul(I(m - 1), tau_ext))

----------------------------------------------------------------------------
(* Properties of the functions                                             *)

\* C15: each index start_stop_indices returns is that of a grid point
\* closest to its target value: no grid point is closer, and the grid
\* points before it are further away (the smallest index wins a tie).
C15_ClosestIndices ==
    (call.method = "start_stop_indices") =>
        LET g == call.args[1]
            dist(j, v) == RAbs(RSub(I(g[j + 1]), v))
        IN  /\ ret.exc = "none"
            /\ Len(ret.val) = 2
            /\ \A k \in 1..2 :
                  LET i == ret.val[k]
                      v == call.args[k + 1]
                  IN  /\ i \in 0..(Len(g) - 1)
                      /\ \A j \in 0..(Len(g) - 1) :
                            /\ ~RLess(dist(j, v), dist(i, v))
                            /\ j < i => RLess(dist(i, v), dist(j, v))

\* C15 witness: a start value half-way between two grid points, of which
\* the first is returned, and a stop value closest to a later grid point.
C15_Witness ==
    /\ call.method = "start_stop_indices"
    /\ LET g == call.args[1]
           i == ret.val[1]
       IN  /\ i + 2 <= Len(g)
           /\ RSub(call.args[2], I(g[i + 1])) = RSub(I(g[i + 2]), call.args[2])
    /\ ret.val[2] > ret.val[1] + 1

\* C28: on a strictly increasing grid, plot_start <= plot_stop gives
\* start <= stop; a value below the first grid point gives index 0 and one
\* above the last gives the last index; and the window t_pts[start:stop]
\* holds exactly the samples start, ..., stop - 1, so that the sample at
\* index stop is not in it and the window is empty when start = stop.
C28_MonotoneAndClamped ==
    (call.method = "start_stop_indices") =>
        LET g == call.args[1]
            lo == call.args[2]
            hi == call.args[3]
            first == ret.val[1]
            last == ret.val[2]
            window == Slice(g, first, last)
        IN  /\ \A i \in 1..(Len(g) - 1) : g[i] < g[i + 1]
            /\ \A k \in 1..2 :
                  /\ RLess(call.args[k + 1], I(g[1])) => ret.val[k] = 0
                  /\ RLess(I(g[Len(g)]), call.args[k + 1]) =>
                        ret.val[k] = Len(g) - 1
            /\ ~RLess(hi, lo) =>
                  /\ first <= last
                  /\ Len(window) = last - first
                  /\ \A j \in 1..Len(window) : window[j] = g[first + j]
                  /\ \A j \in 1..Len(window) : window[j] # g[last + 1]
                  /\ first = last => window = << >>

\* C28 witness: a start value below the grid and a stop value above it, on
\* a grid of three or more points: the window is all but the last sample.
C28_Witness ==
    /\ call.method = "start_stop_indices"
    /\ Len(call.args[1]) >= 3
    /\ RLess(call.args[2], I(0))
    /\ RLess(I(call.args[1][Len(call.args[1])]), call.args[3])
    /\ ret.val = <<0, Len(call.args[1]) - 1>>

\* The calls that are diagnostics of a trajectory.
Diagnostics == {"energy", "periodicity_check", "power_spectrum"}

\* C16: a step that computes a diagnostic (the energy and its relative
\* change, a periodicity sample, a power spectrum of a [start:stop] slice)
\* leaves the trajectory arrays and the time grid as they were, and a
\* diagnostic that is repeated with the same arguments returns what it
\* returned before.
C16_DiagnosticsArePure ==
    [][(call'.method \in Diagnostics) =>
          /\ UNCHANGED <<t_pts, phi, phi_dot, r_pts, r_dot_pts, phi_pts>>
          /\ call' = call => ret' = ret]_vars

\* C16 witness: both pendulum diagnostics have run on one trajectory, the
\* spectrum last, of a slice of several samples that are not all equal.
C16_Witness ==
    /\ PendulumCall("power_spectrum")
    /\ ret.exc = "none"
    /\ stdout # Unbound
    /\ Len(signal) >= 2
    /\ signal[1] # 0
    /\ signal = Slice(phi, start, stop)

\* C17: for S # 0, U_pot at the position U_pot_min returns is the value
\* U_pot_min returns, -A at r_0 = big_R; and what U_pot_min returns is the
\* same for every S.
C17_MorseMinimum ==
    /\ (call.method = "U_pot" /\ ~RIsZero(call.args[2])) =>
          LET S == call.args[2]
              big_R == call.args[3]
              A == call.args[4]
              least == U_pot_min(S, big_R, A)
          IN  /\ ret.exc = "none"
              /\ call.args[1] = least[1] =>
                    /\ ret.val = EConst(least[2])
                    /\ ret.val = EConst(RNeg(A))
    /\ (call.method = "U_pot_min") =>
          /\ ret.val = <<call.args[2], RNeg(call.args[3])>>
          /\ \A S \in MorseS :
                U_pot_min(S, call.args[2], call.args[3]) = ret.val

\* C17 witness: U_pot called at r = big_R with a non-zero depth.
C17_Witness ==
    /\ call.method = "U_pot"
    /\ ~RIsZero(call.args[2])
    /\ call.args[1] = call.args[3]
    /\ ~RIsZero(call.args[4])
    /\ ret.exc = "none"

----------------------------------------------------------------------------
(* Properties of the top-to-bottom run                                     *)

\* The statement executed last: the one before pc, or the one at pc when it
\* raised.
LastStatement == Notebook[IF ret.exc = "none" THEN pc - 1 ELSE pc]

\* The grid of Figure 12.6, on which phi_fig12_6 was computed.
KeptGrid == arange(0, ShortEnd + RunStep, RunStep)

\* a has one sample per point of t_pts, and the window is within it.
OnGrid(a) ==
    /\ Len(a) = Len(t_pts)
    /\ 0 <= start /\ start <= stop /\ stop <= Len(a)

\* phi_fig12_6 is shorter than the grid now bound, the window is within
\* it, and t_pts has at each of its samples the time of that sample.
OverlayWithin ==
    /\ Len(phi_fig12_6) = Len(KeptGrid)
    /\ Len(phi_fig12_6) < Len(t_pts)
    /\ 0 <= start /\ start <= stop /\ stop <= Len(phi_fig12_6)
    /\ \A i \in 1..Len(phi_fig12_6) : t_pts[i] = KeptGrid[i]

\* C27: in a run from top to bottom every slice, periodicity check and
\* power spectrum is applied to a trajectory with one sample per point of
\* the t_pts then bound, with every index within it; except the overlay
\* of Figure 12.7, where phi_fig12_6 is that of the shorter grid of
\* Figure 12.6, the indices taken from the new grid are within its length
\* and each of its samples is paired with its own time.
C27_TrajectoriesOnGrid ==
    LET stmt == LastStatement
    IN  /\ stmt.op = "plot" =>
              /\ ret.exc = "none"
              /\ OnGrid(Fetch(stmt.x))
              /\ IF stmt.y = "phi_fig12_6"
                 THEN OverlayWithin
                 ELSE OnGrid(Fetch(stmt.y))
              /\ Len(ret.val[1]) = stop - start
              /\ Len(ret.val[2]) = stop - start
              /\ \A j \in 1..(stop - start) :
                    /\ ret.val[1][j] = Fetch(stmt.x)[start + j]
                    /\ ret.val[2][j] = Fetch(stmt.y)[start + j]
        /\ stmt.op = "periodicity" =>
              /\ ret.exc = "none"
              /\ OnGrid(phi)
              /\ \A m \in 1..Len(stdout) :
                    /\ start + (m - 1) * delta_index < Len(phi)
                    /\ stdout[m][2] = phi[start + (m - 1) * delta_index + 1]
        /\ stmt.op = "spectrum" =>
              /\ OnGrid(phi)
              /\ Len(signal) = stop - start
              /\ \A j \in 1..Len(signal) : signal[j] = phi[start + j]

\* C27 witness: the overlay of Figure 12.7 has been drawn: two samples of
\* the shorter phi_fig12_6 against the first two times of the longer grid.
C27_Witness ==
    /\ pc \in 2..Len(Notebook)
    /\ ret.exc = "none"
    /\ LastStatement.op = "plot"
    /\ LastStatement.y = "phi_fig12_6"
    /\ Len(t_pts) = LongEnd + 1
    /\ Len(phi_fig12_6) = ShortEnd + 1
    /\ call.args = <<SubSeq(t_pts, 1, 2), SubSeq(phi_fig12_6, 1, 2)>>
    /\ phi # phi_fig12_6

=============================================================================
